---- MODULE Spec2Model ----
(***************************************************************************)
(* Model of the adaptive scheduler of constellation-common (src/sched.rs)  *)
(* together with the retry-delay calculator it uses (src/retry.rs), the    *)
(* one-shot notification (src/sync.rs), the shutdown flag                  *)
(* (src/shutdown.rs), the shared ID generator (src/ids.rs) and the length  *)
(* prefix of the PER stream codec (src/codec/per.rs).                      *)
(*                                                                         *)
(* Conventions.                                                            *)
(*  - Option<T> is a sequence of length at most one: None is <<>> and      *)
(*    Some(x) is <<x>>.                                                    *)
(*  - An (item, origin) pair is the tuple <<item, origin>>.                *)
(*  - Dense indexes are 0-based as in the source; items[idx + 1] is the    *)
(*    entry of the Vec at index idx.                                       *)
(*  - Instants and Durations are natural numbers of one common unit.       *)
(***************************************************************************)
EXTENDS Integers, Sequences, FiniteSets, TLC

\* The scheduler and what its caller saw.
VARIABLES state, epoch, epochs, clock, ret, published, applied, armed, quiet
\* A Retry configuration, the round retry_delay was last called with and
\* what the call gave.
VARIABLES rcfg, rround, rout
\* A Notify shared by threads: the flag and the poison mark of its mutex, the
\* thread holding the guard (0 for none), the clock, and for every thread its
\* position, the deadline and the timeout of its call of wait_timeout, the
\* time its timed wait on the condition variable expires, what its last call
\* returned, and whether that call began with the flag set.
VARIABLES flag, poisoned, guard, pc, deadline, timeout, wakeat, out, begun, ntime
\* History of the Notify: the time the flag was first set, and for every
\* thread the time and the timeout of its last call when that call was
\* wait_timeout.
VARIABLES setat, entry
\* A ShutdownFlag shared by its clones: the AtomicBool, what the last call on
\* every clone returned, and whether set has been called.
VARIABLES shutdown, seen, wasset
\* A SharedIDGen over an AscendingCount: the counter, the caller holding the
\* mutex (0 for none), every caller's position and the value it took from
\* the counter, and the values returned so far with their callers, in the
\* order of the returns.
VARIABLES curr, inner, ipc, got, issued
\* A byte stream carrying one datagram of a PERCodec: what is on the stream
\* (the two bytes of the length prefix and the number of payload bytes after
\* them), what encode_to_stream returned and what decode_from_stream
\* returned.
VARIABLES stream, encoded, decoded

schedVars == <<state, epoch, epochs, clock, ret, published, applied, armed, quiet>>

retryVars == <<rcfg, rround, rout>>

notifyVars ==
    <<flag, poisoned, guard, pc, deadline, timeout, wakeat, out, begun, ntime,
      setat, entry>>

shutdownVars == <<shutdown, seen, wasset>>

idgenVars == <<curr, inner, ipc, got, issued>>

codecVars == <<stream, encoded, decoded>>

vars == <<schedVars, retryVars, notifyVars, shutdownVars, idgenVars, codecVars>>

\* What the actions of one component leave alone.
schedOthers == <<retryVars, notifyVars, shutdownVars, idgenVars, codecVars>>

retryOthers == <<schedVars, notifyVars, shutdownVars, idgenVars, codecVars>>

notifyOthers == <<schedVars, retryVars, shutdownVars, idgenVars, codecVars>>

shutdownOthers == <<schedVars, retryVars, notifyVars, idgenVars, codecVars>>

idgenOthers == <<schedVars, retryVars, notifyVars, shutdownVars, codecVars>>

codecOthers == <<schedVars, retryVars, notifyVars, shutdownVars, idgenVars>>

(***************************************************************************)
(* Bounds of the model.                                                    *)
(***************************************************************************)
\* Longest refresh input (number of (item, origin) entries).
MaxInput == 2
\* Largest Instant the clock and the refresh timestamps reach.
MaxTime == 1
\* Largest number of success/failure events the histories held accumulate.
MaxEvents == 2
\* Number of elements of the (finite) epoch iterator handed to Scheduler::new.
NumEpochs == 3
\* Largest round retry_delay is called with.
MaxRound == 22
\* Number of threads holding a clone of the Notify.
NumThreads == 2
\* Largest Instant the clock of the Notify threads reaches.
MaxNTime == 2
\* Longest finite timeout handed to wait_timeout.
MaxTimeout == 1
\* Number of clones of the ShutdownFlag.
NumClones == 3
\* Number of callers of the SharedIDGen.
NumCallers == 2
\* Number of IDs the SharedIDGen is asked for.
MaxIds == 4
\* Longest payload (in bytes) encode_to_stream is given to write.
MaxPayload == 65535

Threads == 1..NumThreads

Clones == 1..NumClones

Callers == 1..NumCallers

None == <<>>
Some(x) == <<x>>

\* Items: "A" and "B" are admitted by the policy, "X" is rejected.
Items == {"A", "B", "X"}
Origins == {"o1", "o2"}
\* The (item, origin) pairs callers pass: "A" is known under two origins.
Pairs == {<<"A", "o1">>, <<"A", "o2">>, <<"B", "o1">>, <<"X", "o1">>}

Range(s) == {s[i] : i \in DOMAIN s}

\* All the orders in which the elements of a HashSet can be iterated.
Orders(S) == {f \in [1..Cardinality(S) -> S] : \A i, j \in DOMAIN f : f[i] = f[j] => i = j}

Min(S) == CHOOSE x \in S : \A y \in S : x <= y

RECURSIVE Pow(_, _)
Pow(b, e) == IF e = 0 THEN 1 ELSE b * Pow(b, e - 1)

(***************************************************************************)
(* retry.rs: Retry::retry_delay, with integral exp_base, exp_factor and    *)
(* linear_factor.  The arithmetic is that of f32: every conversion and     *)
(* every operation rounds to 24 significant bits.  random is the value     *)
(* drawn from gen_range(0..max_random).                                    *)
(***************************************************************************)
\* Number of significant bits of an f32.
F32Bits == 24

\* Every natural number below this one is an f32.
F32Exact == Pow(2, F32Bits)

\* The spacing of the f32 values around the natural number x, searched
\* upwards from u.
RECURSIVE Ulp(_, _)
Ulp(x, u) == IF x < F32Exact * u THEN u ELSE Ulp(x, 2 * u)

\* The natural number x as an f32: rounded to the nearest representable
\* value, ties to the even significand.
F32(x) ==
    LET u == Ulp(x, 1)
        q == x \div u
        rest == x % u
    IN IF 2 * rest > u \/ (2 * rest = u /\ q % 2 = 1) THEN (q + 1) * u ELSE q * u

\* Faulty variant of retry_delay: the round is not capped by exp_rounds_cap
\* in the exponent.
retry_delay_uncapped(self, n, random) ==
    LET exponent == F32(self.exp_factor * F32(n))
        linear_round == IF self.linear_rounds_cap = None THEN F32(n)
                        ELSE IF n < self.linear_rounds_cap[1] THEN F32(n)
                        ELSE F32(self.linear_rounds_cap[1])
        exp_term == F32(F32(Pow(self.exp_base, exponent)) * F32(self.factor))
        linear_term == F32(F32(linear_round * self.linear_factor) * F32(self.factor))
        duration == F32(F32(F32(exp_term + linear_term) + F32(random)) + F32(self.addend))
    IN IF duration > 0 THEN duration ELSE 0

retry_delay(self, n, random) ==
    LET exp_round == IF n < self.exp_rounds_cap THEN n ELSE self.exp_rounds_cap
        exponent == F32(self.exp_factor * F32(exp_round))
        linear_round == IF self.linear_rounds_cap = None THEN F32(n)
                        ELSE IF n < self.linear_rounds_cap[1] THEN F32(n)
                        ELSE F32(self.linear_rounds_cap[1])
        exp_term == F32(F32(Pow(self.exp_base, exponent)) * F32(self.factor))
        linear_term == F32(F32(linear_round * self.linear_factor) * F32(self.factor))
        duration == F32(F32(F32(exp_term + linear_term) + F32(random)) + F32(self.addend))
    IN IF duration > 0 THEN duration ELSE 0

\* The Retry configuration the scheduler is built with: 2^min(n, 2) units.
SchedRetry ==
    [factor |-> 1, exp_base |-> 2, exp_factor |-> 1, exp_rounds_cap |-> 2,
     linear_factor |-> 0, linear_rounds_cap |-> None, max_random |-> 1,
     addend |-> 0]

\* The values gen_range(0..max_random) can draw.
RandomRange(self) == 0..(self.max_random - 1)

\* What a call of retry_delay can give: a Duration for each value the random
\* generator can draw; gen_range panics when its range is empty.
retry_delay_call(self, n) ==
    IF RandomRange(self) = {}
    THEN {[kind |-> "Panic"]}
    ELSE {[kind |-> "Ok", delay |-> retry_delay(self, n, random)] :
              random \in RandomRange(self)}

\* No Retry is under test: the configuration is the scheduler's and
\* retry_delay has not been called.
RetryIdle ==
    /\ rcfg = SchedRetry
    /\ rround = 0
    /\ rout = [kind |-> "NotCalled"]

(***************************************************************************)
(* sched.rs: the History trait, instantiated by a counting history: it     *)
(* counts the success and failure hooks invoked on it, nretries is the     *)
(* number of failures since the last success, the score is successes       *)
(* minus failures.                                                         *)
(***************************************************************************)
History_new == [successes |-> 0, failures |-> 0, retries |-> 0]

History_success(h) == [h EXCEPT !.successes = @ + 1, !.retries = 0]

History_failure(h) == [h EXCEPT !.failures = @ + 1, !.retries = @ + 1]

nretries(h) == h.retries

score(h) == h.successes - h.failures

(***************************************************************************)
(* sched.rs: the Policy trait, instantiated by a policy that rejects "X"   *)
(* and prefers no item over another.                                       *)
(***************************************************************************)
check(item) == item # "X"

cmp_items(a, b) == "Equal"

\* Faulty variant of filter: collects the input without consulting check.
filter_passthru(items) == items

filter(items) == SelectSeq(items, LAMBDA p : check(p[1]))

(***************************************************************************)
(* sched.rs: Record                                                        *)
(***************************************************************************)
Record_new(time) == [history |-> History_new, last_use |-> time, delay_until |-> None]

IntCmp(a, b) == IF a < b THEN "Less" ELSE IF a > b THEN "Greater" ELSE "Equal"

\* Faulty variant of cmp_last_use: the comparison is not reversed.
cmp_last_use_forward(self, other) == IntCmp(self.last_use, other.last_use)

\* Deliberately reversed: other.last_use.cmp(self.last_use).
cmp_last_use(self, other) == IntCmp(other.last_use, self.last_use)

cmp_delays(self, other) ==
    CASE self.delay_until = None /\ other.delay_until # None -> "Greater"
      [] self.delay_until # None /\ other.delay_until = None -> "Less"
      [] self.delay_until = None /\ other.delay_until = None -> cmp_last_use(self, other)
      [] OTHER ->
           LET c == IntCmp(self.delay_until[1], other.delay_until[1])
           IN IF c = "Equal" THEN cmp_last_use(self, other) ELSE c

cmp_scores(self, other) == IntCmp(score(self.history), score(other.history))

(***************************************************************************)
(* sched.rs: MultiSched.  A MultiSched is [ids, items, ordering]; an entry *)
(* of items is [item, origin, record].                                     *)
(***************************************************************************)
Entry(item, origin, record) == [item |-> item, origin |-> origin, record |-> record]

PairOf(e) == <<e.item, e.origin>>

\* The de-duplication loop: ids maps every item to the index of its first
\* occurrence in items.
DedupIds(items) ==
    [it \in {items[i].item : i \in DOMAIN items} |->
        Min({i \in DOMAIN items : items[i].item = it}) - 1]

\* The de-duplication loop: ordering lists the indexes of the first
\* occurrences, ascending.
DedupOrdering(items) ==
    SelectSeq([i \in DOMAIN items |-> i - 1],
              LAMBDA idx : \A j \in 1..idx : items[j].item # items[idx + 1].item)

MultiSched_new(now, items) ==
    LET its == [i \in DOMAIN items |-> Entry(items[i][1], items[i][2], Record_new(now))]
    IN [ids |-> DedupIds(its), items |-> its, ordering |-> DedupOrdering(its)]

\* The lookup shared by MultiSched::success and MultiSched::failure:
\* Some(idx) if origin == self.items[idx].1.
Lookup(self, item, origin) ==
    IF item \in DOMAIN self.ids /\ self.items[self.ids[item] + 1].origin = origin
    THEN Some(self.ids[item])
    ELSE None

\* Faulty variant of MultiSched_success: the success is recorded on every
\* record.
MultiSched_success_all(self, item, origin) ==
    LET found == Lookup(self, item, origin)
    IN IF found # None
       THEN [sched |-> [self EXCEPT !.items =
                            [i \in DOMAIN self.items |->
                                [self.items[i] EXCEPT !.record =
                                    [@ EXCEPT !.history = History_success(@),
                                              !.delay_until = None]]]],
             result |-> "Ok"]
       ELSE [sched |-> self, result |-> "BadItem"]

\* MultiSched::success.
MultiSched_success(self, item, origin) ==
    LET found == Lookup(self, item, origin)
    IN IF found # None
       THEN [sched |-> [self EXCEPT !.items[found[1] + 1].record =
                            [@ EXCEPT !.history = History_success(@),
                                      !.delay_until = None]],
             result |-> "Ok"]
       ELSE [sched |-> self, result |-> "BadItem"]

\* Indexing self.items[idx] out of bounds panics before anything is changed.
MultiSched_success_id(self, idx) ==
    IF idx < Len(self.items)
    THEN [sched |-> [self EXCEPT !.items[idx + 1].record =
                         [@ EXCEPT !.history = History_success(@),
                                   !.delay_until = None]],
          result |-> "Ok"]
    ELSE [sched |-> self, result |-> "Panic"]

\* Faulty variant of MultiSched_failure: the delay is computed after
\* history.failure, from the incremented retry count.
MultiSched_failure_post(self, retry, item, origin, random) ==
    LET found == Lookup(self, item, origin)
    IN IF found # None
       THEN LET record == self.items[found[1] + 1].record
                after == History_failure(record.history)
                delay == retry_delay(retry, nretries(after), random)
            IN [sched |-> [self EXCEPT !.items[found[1] + 1].record =
                               [@ EXCEPT !.delay_until = Some(record.last_use + delay),
                                         !.history = after]],
                result |-> "Ok"]
       ELSE [sched |-> self, result |-> "BadItem"]

MultiSched_failure(self, retry, item, origin, random) ==
    LET found == Lookup(self, item, origin)
    IN IF found # None
       THEN LET record == self.items[found[1] + 1].record
                delay == retry_delay(retry, nretries(record.history), random)
            IN [sched |-> [self EXCEPT !.items[found[1] + 1].record =
                               [@ EXCEPT !.delay_until = Some(record.last_use + delay),
                                         !.history = History_failure(@)]],
                result |-> "Ok"]
       ELSE [sched |-> self, result |-> "BadItem"]

\* Faulty variant of MultiSched_failure_id: the delay is computed from
\* nretries() as in MultiSched_failure.
MultiSched_failure_id_pre(self, retry, idx, random) ==
    IF idx < Len(self.items)
    THEN LET record == self.items[idx + 1].record
             delay == retry_delay(retry, nretries(record.history), random)
         IN [sched |-> [self EXCEPT !.items[idx + 1].record =
                            [@ EXCEPT !.delay_until = Some(record.last_use + delay),
                                      !.history = History_failure(@)]],
             result |-> "Ok"]
    ELSE [sched |-> self, result |-> "Panic"]

MultiSched_failure_id(self, retry, idx, random) ==
    IF idx < Len(self.items)
    THEN LET record == self.items[idx + 1].record
             delay == retry_delay(retry, nretries(record.history) + 1, random)
         IN [sched |-> [self EXCEPT !.items[idx + 1].record =
                            [@ EXCEPT !.delay_until = Some(record.last_use + delay),
                                      !.history = History_failure(@)]],
             result |-> "Ok"]
    ELSE [sched |-> self, result |-> "Panic"]

\* The comparator handed to sort_unstable_by in fixup_ordering.
OrderCmp(self, idx_a, idx_b) ==
    LET a == self.items[idx_a + 1]
        b == self.items[idx_b + 1]
        s == cmp_scores(a.record, b.record)
    IN CASE s = "Equal" ->
              IF cmp_items(a.item, b.item) = "Equal"
              THEN cmp_delays(a.record, b.record)
              ELSE cmp_items(a.item, b.item)
         [] s = "Less" -> "Greater"
         [] OTHER -> "Less"

\* The orderings sort_unstable_by can leave: every permutation of ordering
\* that is sorted for the comparator (equal elements in any order).
fixup_ordering(self) ==
    {o \in Orders(Range(self.ordering)) :
        \A i, j \in DOMAIN o : i < j => OrderCmp(self, o[i], o[j]) # "Greater"}

\* MultiSched::item; ordering is the outcome of fixup_ordering, now the
\* value of Instant::now().
MultiSched_item(self, ordering, now) ==
    IF self.ordering # <<>>
    THEN LET idx == ordering[1]
             e == self.items[idx + 1]
             sorted == [self EXCEPT !.ordering = ordering]
         IN IF e.record.delay_until # None
            THEN LET until == e.record.delay_until[1]
                     new_until == IF until < now THEN None ELSE Some(until)
                 IN [sched |-> [sorted EXCEPT !.items[idx + 1].record.delay_until = new_until],
                     result |-> [kind |-> "Retry", when |-> until]]
            ELSE [sched |-> [sorted EXCEPT !.items[idx + 1].record =
                                 [@ EXCEPT !.last_use = now, !.delay_until = None]],
                  result |-> [kind |-> "Success", item |-> e.item,
                              origin |-> e.origin, idx |-> idx]]
    ELSE [sched |-> self, result |-> [kind |-> "Empty"]]

\* MultiSched::convert_to_single: the first record matching the target, and
\* every entry that does not match it.
convert_to_single(self, target, target_origin) ==
    LET matches == {i \in DOMAIN self.items : PairOf(self.items[i]) = <<target, target_origin>>}
        rest == SelectSeq(self.items, LAMBDA e : PairOf(e) # <<target, target_origin>>)
    IN [out |-> IF matches = {} THEN None ELSE Some(self.items[Min(matches)].record),
        removed |-> [i \in DOMAIN rest |-> PairOf(rest[i])]]

\* MultiSched::from_single: the target is recognised by its item alone.
from_single(now, target, existing, items) ==
    LET its == [i \in DOMAIN items |->
                   IF items[i][1] # target
                   THEN Entry(items[i][1], items[i][2], Record_new(now))
                   ELSE Entry(items[i][1], items[i][2], existing)]
    IN [sched |-> [ids |-> DedupIds(its), items |-> its, ordering |-> DedupOrdering(its)],
        added |-> SelectSeq(items, LAMBDA p : p[1] # target),
        removed |-> \A i \in DOMAIN items : items[i][1] # target]

\* MultiSched::update.  order is the order in which the HashSet of new pairs
\* is drained, rorder the order in which the HashSet of existing pairs is.
update(self, now, input, order, rorder) ==
    LET items == Range(input)
        existing == {PairOf(self.items[i]) : i \in DOMAIN self.items}
    IN IF items # existing
       THEN LET kept(p) == Lookup(self, p[1], p[2]) # None
                its == [i \in DOMAIN order |->
                           IF kept(order[i])
                           THEN Entry(order[i][1], order[i][2],
                                      self.items[self.ids[order[i][1]] + 1].record)
                           ELSE Entry(order[i][1], order[i][2], Record_new(now))]
                added == SelectSeq(order, LAMBDA p : ~kept(p))
                ids == DedupIds(its)
                removed == SelectSeq(rorder, LAMBDA p : p[1] \notin DOMAIN ids)
            IN [sched |-> [ids |-> ids, items |-> its, ordering |-> DedupOrdering(its)],
                added |-> IF added # <<>> THEN Some(added) ELSE None,
                removed |-> IF removed # <<>> THEN Some(removed) ELSE None]
       ELSE [sched |-> self, added |-> None, removed |-> None]

(***************************************************************************)
(* sched.rs: SchedState and Scheduler.  The state is one of                *)
(*   [tag |-> "Uninit"],                                                   *)
(*   [tag |-> "Single", record, single, origin, latest],                   *)
(*   [tag |-> "Multi", sched, latest].                                     *)
(* epoch is the current epoch; the epoch iterator yields 0, 1, ...,        *)
(* NumEpochs - 1 and epochs is the number of elements consumed so far.     *)
(***************************************************************************)
Uninit == [tag |-> "Uninit"]

Single(record, single, origin, latest) ==
    [tag |-> "Single", record |-> record, single |-> single, origin |-> origin,
     latest |-> latest]

Multi(sched, latest) == [tag |-> "Multi", sched |-> sched, latest |-> latest]

DenseItemID(e, id) == [epoch |-> e, id |-> id]

\* The epochs a DenseItemID can carry.
EpochIds == 0..(NumEpochs - 1)

\* Faulty variant of epochs_next: the element handed out last is handed out
\* again.
epochs_next_again(eps) == IF eps < NumEpochs THEN Some(eps - 1) ELSE None

\* Iterator::next on the epoch iterator: the element, or None when exhausted.
epochs_next(eps) == IF eps < NumEpochs THEN Some(eps) ELSE None

\* Faulty variant of Scheduler_success: the Uninit arm answers Ok(()).
Scheduler_success_okuninit(st, item, origin) ==
    CASE st.tag = "Multi" ->
           LET r == MultiSched_success(st.sched, item, origin)
           IN [state |-> [st EXCEPT !.sched = r.sched], result |-> r.result]
      [] st.tag = "Single" ->
           [state |-> [st EXCEPT !.record.history = History_success(@)],
            result |-> "Ok"]
      [] OTHER -> [state |-> st, result |-> "Ok"]

Scheduler_success(st, item, origin) ==
    CASE st.tag = "Multi" ->
           LET r == MultiSched_success(st.sched, item, origin)
           IN [state |-> [st EXCEPT !.sched = r.sched], result |-> r.result]
      [] st.tag = "Single" ->
           [state |-> [st EXCEPT !.record.history = History_success(@)],
            result |-> "Ok"]
      [] OTHER -> [state |-> st, result |-> "Uninit"]

Scheduler_success_id(st, ep, id) ==
    IF id.epoch = ep
    THEN CASE st.tag = "Multi" ->
                LET r == MultiSched_success_id(st.sched, id.id)
                IN [state |-> [st EXCEPT !.sched = r.sched], result |-> r.result]
           [] st.tag = "Single" ->
                [state |-> [st EXCEPT !.record.history = History_success(@)],
                 result |-> "Ok"]
           [] OTHER -> [state |-> st, result |-> "Uninit"]
    ELSE [state |-> st, result |-> "Ok"]

Scheduler_failure(st, retry, item, origin, random) ==
    CASE st.tag = "Multi" ->
           LET r == MultiSched_failure(st.sched, retry, item, origin, random)
           IN [state |-> [st EXCEPT !.sched = r.sched], result |-> r.result]
      [] st.tag = "Single" ->
           LET delay == retry_delay(retry, nretries(st.record.history), random)
           IN [state |-> [st EXCEPT !.record =
                              [@ EXCEPT !.delay_until = Some(st.record.last_use + delay),
                                        !.history = History_failure(@)]],
               result |-> "Ok"]
      [] OTHER -> [state |-> st, result |-> "Uninit"]

\* Faulty variant of Scheduler_failure_id: the epoch of the ID is not compared
\* with the current epoch.
Scheduler_failure_id_noepoch(st, ep, retry, id, random) ==
    CASE st.tag = "Multi" ->
           LET r == MultiSched_failure_id(st.sched, retry, id.id, random)
           IN [state |-> [st EXCEPT !.sched = r.sched], result |-> r.result]
      [] st.tag = "Single" ->
           [state |-> [st EXCEPT !.record.history = History_success(@)],
            result |-> "Ok"]
      [] OTHER -> [state |-> st, result |-> "Uninit"]

Scheduler_failure_id(st, ep, retry, id, random) ==
    IF id.epoch = ep
    THEN CASE st.tag = "Multi" ->
                LET r == MultiSched_failure_id(st.sched, retry, id.id, random)
                IN [state |-> [st EXCEPT !.sched = r.sched], result |-> r.result]
           [] st.tag = "Single" ->
                [state |-> [st EXCEPT !.record.history = History_success(@)],
                 result |-> "Ok"]
           [] OTHER -> [state |-> st, result |-> "Uninit"]
    ELSE [state |-> st, result |-> "Ok"]

\* Faulty variant of refresh_one: in Single state the new item is not
\* compared with the one held, the record is always replaced.
refresh_one_replace(st, now, item, origin) ==
    CASE st.tag = "Single" ->
           [state |-> Single(Record_new(now), item, origin, now),
            added |-> Some(<< <<item, origin>> >>),
            removed |-> Some(<< <<st.single, st.origin>> >>)]
      [] st.tag = "Multi" ->
           LET c == convert_to_single(st.sched, item, origin)
           IN IF c.out # None
              THEN [state |-> Single(c.out[1], item, origin, now),
                    added |-> None, removed |-> Some(c.removed)]
              ELSE [state |-> Single(Record_new(now), item, origin, now),
                    added |-> Some(<< <<item, origin>> >>),
                    removed |-> Some(c.removed)]
      [] OTHER ->
           [state |-> Single(Record_new(now), item, origin, now),
            added |-> Some(<< <<item, origin>> >>), removed |-> None]

\* The first match of refresh when the filtered input has exactly one entry:
\* the new state and the (added, removed) pair.
refresh_one(st, now, item, origin) ==
    CASE st.tag = "Single" ->
           IF st.single = item
           THEN [state |-> st, added |-> None, removed |-> None]
           ELSE [state |-> Single(Record_new(now), item, origin, now),
                 added |-> Some(<< <<item, origin>> >>),
                 removed |-> Some(<< <<st.single, st.origin>> >>)]
      [] st.tag = "Multi" ->
           LET c == convert_to_single(st.sched, item, origin)
           IN IF c.out # None
              THEN [state |-> Single(c.out[1], item, origin, now),
                    added |-> None, removed |-> Some(c.removed)]
              ELSE [state |-> Single(Record_new(now), item, origin, now),
                    added |-> Some(<< <<item, origin>> >>),
                    removed |-> Some(c.removed)]
      [] OTHER ->
           [state |-> Single(Record_new(now), item, origin, now),
            added |-> Some(<< <<item, origin>> >>), removed |-> None]

\* The first match of refresh when the filtered input has several entries.
refresh_many(st, now, filtered, order, rorder) ==
    CASE st.tag = "Single" ->
           LET f == from_single(now, st.single, st.record, filtered)
           IN [state |-> Multi(f.sched, now),
               added |-> Some(f.added),
               removed |-> IF f.removed THEN Some(<< <<st.single, st.origin>> >>)
                           ELSE None]
      [] st.tag = "Multi" ->
           LET u == update(st.sched, now, filtered, order, rorder)
           IN [state |-> [st EXCEPT !.sched = u.sched],
               added |-> u.added, removed |-> u.removed]
      [] OTHER ->
           [state |-> Multi(MultiSched_new(now, filtered), now),
            added |-> Some(filtered), removed |-> None]

\* The dense ID range collected at the end of refresh.
dense_ids(st) ==
    CASE st.tag = "Single" -> << <<st.single, st.origin>> >>
      [] st.tag = "Multi" -> [i \in DOMAIN st.sched.items |-> PairOf(st.sched.items[i])]
      [] OTHER -> <<>>

need_refresh(st, now) == IF st.tag = "Uninit" THEN TRUE ELSE now > st.latest

\* Scheduler::refresh.  order and rorder are the HashSet iteration orders
\* used by MultiSched::update.
refresh(st, ep, eps, now, iter, order, rorder) ==
    IF need_refresh(st, now)
    THEN LET filtered == filter(iter)
         IN IF filtered = <<>>
            THEN [state |-> st, epoch |-> ep, epochs |-> eps,
                  result |-> [kind |-> "NoValidItems"]]
            ELSE LET last == filtered[Len(filtered)]
                     c == IF Len(filtered) = 1
                          THEN refresh_one(st, now, last[1], last[2])
                          ELSE refresh_many(st, now, filtered, order, rorder)
                 IN IF c.added = None /\ c.removed = None
                    THEN [state |-> c.state, epoch |-> ep, epochs |-> eps,
                          result |-> [kind |-> "None"]]
                    ELSE IF epochs_next(eps) = None
                    THEN [state |-> c.state, epoch |-> ep, epochs |-> eps,
                          result |-> [kind |-> "OutOfEpochs"]]
                    ELSE [state |-> c.state, epoch |-> epochs_next(eps)[1],
                          epochs |-> eps + 1,
                          result |-> [kind |-> "Change",
                                      change |-> [id |-> epochs_next(eps)[1],
                                                  dense_ids |-> dense_ids(c.state),
                                                  added |-> c.added,
                                                  removed |-> c.removed]]]
    ELSE [state |-> st, epoch |-> ep, epochs |-> eps, result |-> [kind |-> "None"]]

\* Faulty variant of select: in Single state a delay that has passed is
\* left in place.
select_keep(st, ep, ordering, now) ==
    CASE st.tag = "Multi" ->
           LET r == MultiSched_item(st.sched, ordering, now)
           IN [state |-> [st EXCEPT !.sched = r.sched],
               result |-> IF r.result.kind = "Success"
                          THEN [kind |-> "Success", item |-> r.result.item,
                                origin |-> r.result.origin,
                                id |-> DenseItemID(ep, r.result.idx)]
                          ELSE r.result]
      [] st.tag = "Single" ->
           IF st.record.delay_until # None
           THEN LET until == st.record.delay_until[1]
                IN [state |-> st, result |-> [kind |-> "Retry", when |-> until]]
           ELSE [state |-> [st EXCEPT !.record =
                                [@ EXCEPT !.last_use = now, !.delay_until = None]],
                 result |-> [kind |-> "Success", item |-> st.single,
                             origin |-> st.origin, id |-> DenseItemID(ep, 0)]]
      [] OTHER -> [state |-> st, result |-> [kind |-> "Empty"]]

\* Scheduler::select.  ordering is the outcome of the sort in Multi state,
\* now the value of Instant::now().
select(st, ep, ordering, now) ==
    CASE st.tag = "Multi" ->
           LET r == MultiSched_item(st.sched, ordering, now)
           IN [state |-> [st EXCEPT !.sched = r.sched],
               result |-> IF r.result.kind = "Success"
                          THEN [kind |-> "Success", item |-> r.result.item,
                                origin |-> r.result.origin,
                                id |-> DenseItemID(ep, r.result.idx)]
                          ELSE r.result]
      [] st.tag = "Single" ->
           IF st.record.delay_until # None
           THEN LET until == st.record.delay_until[1]
                    new_until == IF until < now THEN None ELSE Some(until)
                IN [state |-> [st EXCEPT !.record.delay_until = new_until],
                    result |-> [kind |-> "Retry", when |-> until]]
           ELSE [state |-> [st EXCEPT !.record =
                                [@ EXCEPT !.last_use = now, !.delay_until = None]],
                 result |-> [kind |-> "Success", item |-> st.single,
                             origin |-> st.origin, id |-> DenseItemID(ep, 0)]]
      [] OTHER -> [state |-> st, result |-> [kind |-> "Empty"]]

(***************************************************************************)
(* The scheduler as a state machine.  A single owner calls the operations  *)
(* one after the other; clock is the monotonic clock read by select.       *)
(* Besides the program's state the model records what the caller saw:      *)
(*   ret        the operation last called and what it returned,            *)
(*   published  the (id, dense_ids) of the last EpochChange returned,      *)
(*   applied    the timestamp of the last refresh that was not stale and   *)
(*              had at least one admissible item.                          *)
(* published and applied are recorded by RefreshTracked only.              *)
(*   armed      for each pair, the latest instant a failure report armed   *)
(*              on its record since the record was created or a success    *)
(*              was reported on it,                                        *)
(*   quiet      whether the caller has stopped reporting failures and      *)
(*              refreshing.                                                *)
(* armed and quiet are recorded by the Delay* actions only.                *)
(***************************************************************************)
\* The records held, in dense-index order.
Records(st) ==
    CASE st.tag = "Single" -> <<st.record>>
      [] st.tag = "Multi" -> [i \in DOMAIN st.sched.items |-> st.sched.items[i].record]
      [] OTHER -> <<>>

\* The (item, origin) pairs held.
HeldPairs(st) == Range(dense_ids(st))

\* The dense indexes of the records held for the pair p.
Hits(st, p) == {i - 1 : i \in {j \in DOMAIN dense_ids(st) : dense_ids(st)[j] = p}}

RECURSIVE Events(_)
Events(records) ==
    IF records = <<>> THEN 0
    ELSE records[1].history.successes + records[1].history.failures + Events(Tail(records))

Bounded(st) == Events(Records(st)) <= MaxEvents

Inputs == UNION {[1..n -> Pairs] : n \in 0..MaxInput}

Times == 0..MaxTime

\* Notify::new before any thread uses it: the flag unset, the mutex free and
\* sound, every thread between two calls.
Notify_new ==
    /\ flag = FALSE
    /\ poisoned = FALSE
    /\ guard = 0
    /\ pc = [t \in Threads |-> "idle"]
    /\ deadline = [t \in Threads |-> 0]
    /\ timeout = [t \in Threads |-> 0]
    /\ wakeat = [t \in Threads |-> 0]
    /\ out = [t \in Threads |-> [op |-> "new", res |-> "Ok"]]
    /\ begun = [t \in Threads |-> FALSE]
    /\ ntime = 0
    /\ setat = None
    /\ entry = [t \in Threads |-> None]

\* No thread uses the Notify.
NotifyIdle == Notify_new

\* ShutdownFlag::new: the AtomicBool holds false.
ShutdownFlag_new ==
    /\ shutdown = FALSE
    /\ seen = [c \in Clones |-> [op |-> "new", val |-> FALSE]]
    /\ wasset = FALSE

\* No clone of the ShutdownFlag is used.
ShutdownIdle == ShutdownFlag_new

\* SharedIDGen::create over AscendingCount::create: the counter at 0, the
\* mutex free.
SharedIDGen_create ==
    /\ curr = 0
    /\ inner = 0
    /\ ipc = [k \in Callers |-> "idle"]
    /\ got = [k \in Callers |-> None]
    /\ issued = <<>>

\* No caller uses the SharedIDGen.
IDGenIdle == SharedIDGen_create

\* PERCodec::create with a stream nothing has been written to.
PERCodec_create ==
    /\ stream = None
    /\ encoded = None
    /\ decoded = None

\* No datagram is sent over the stream.
CodecIdle == PERCodec_create

\* Scheduler::new called with an epoch iterator of len elements: Err when
\* the first next() yields nothing, else an Uninit scheduler holding the
\* first element, with one element consumed.
Scheduler_new_from(len) ==
    LET first == IF 0 < len THEN Some(0) ELSE None
    IN IF first # None
       THEN [kind |-> "Ok", state |-> Uninit, epoch |-> first[1], epochs |-> 1]
       ELSE [kind |-> "OutOfEpochs"]

\* Scheduler::new: no item, the first element of the epoch iterator taken as
\* the current epoch.
Scheduler_new ==
    /\ state = Uninit
    /\ epoch = 0
    /\ epochs = 1
    /\ clock = 0
    /\ ret = [op |-> "new"]
    /\ published = None
    /\ applied = None
    /\ armed = [p \in Pairs |-> None]
    /\ quiet = FALSE

Init ==
    Scheduler_new /\ RetryIdle /\ NotifyIdle /\ ShutdownIdle /\ IDGenIdle /\ CodecIdle

\* Every outcome refresh(now, iter) can have in the state st: one for each
\* pair of HashSet iteration orders MultiSched::update can meet.
RefreshOutcomes(st, ep, eps, now, iter) ==
    LET filtered == filter(iter)
        updating == st.tag = "Multi" /\ need_refresh(st, now) /\ Len(filtered) > 1
    IN {refresh(st, ep, eps, now, iter, order, rorder) :
            order \in (IF updating THEN Orders(Range(filtered)) ELSE {<<>>}),
            rorder \in (IF updating THEN Orders(HeldPairs(st)) ELSE {<<>>})}

\* The refresh was not dropped as stale and had at least one admissible item.
Applied(st, now, iter) ==
    need_refresh(st, now) /\ \E i \in DOMAIN iter : check(iter[i][1])

RefreshWith(track) ==
    \E now \in Times, iter \in Inputs :
        \E r \in RefreshOutcomes(state, epoch, epochs, now, iter) :
            /\ state' = r.state
            /\ epoch' = r.epoch
            /\ epochs' = r.epochs
            /\ ret' = [op |-> "refresh", kind |-> r.result.kind]
            /\ published' = IF track /\ r.result.kind = "Change"
                            THEN Some([id |-> r.result.change.id,
                                       dense_ids |-> r.result.change.dense_ids])
                            ELSE published
            /\ applied' = IF track /\ Applied(state, now, iter)
                          THEN Some(now) ELSE applied
            /\ UNCHANGED <<clock, armed, quiet, schedOthers>>

Refresh == RefreshWith(FALSE)

RefreshTracked == RefreshWith(TRUE)

Select ==
    \E ordering \in (IF state.tag = "Multi" THEN fixup_ordering(state.sched) ELSE {<<>>}) :
        \E r \in {select(state, epoch, ordering, clock)} :
           /\ state' = r.state
           /\ ret' = [op |-> "select", result |-> r.result]
           /\ UNCHANGED <<epoch, epochs, clock, published, applied, armed, quiet, schedOthers>>

Success ==
    \E p \in Pairs :
        \E r \in {Scheduler_success(state, p[1], p[2])} :
           /\ Bounded(r.state)
           /\ state' = r.state
           /\ ret' = [op |-> "success", kind |-> r.result]
           /\ UNCHANGED <<epoch, epochs, clock, published, applied, armed, quiet, schedOthers>>

Failure ==
    \E p \in Pairs, random \in RandomRange(SchedRetry) :
        \E r \in {Scheduler_failure(state, SchedRetry, p[1], p[2], random)} :
           /\ Bounded(r.state)
           /\ state' = r.state
           /\ ret' = [op |-> "failure", kind |-> r.result]
           /\ UNCHANGED <<epoch, epochs, clock, published, applied, armed, quiet, schedOthers>>

SuccessId ==
    \E e \in EpochIds, idx \in 0..MaxInput :
        \E r \in {Scheduler_success_id(state, epoch, DenseItemID(e, idx))} :
           /\ Bounded(r.state)
           /\ state' = r.state
           /\ ret' = [op |-> "success_id", kind |-> r.result, stale |-> e # epoch]
           /\ UNCHANGED <<epoch, epochs, clock, published, applied, armed, quiet, schedOthers>>

FailureId ==
    \E e \in EpochIds, idx \in 0..MaxInput, random \in RandomRange(SchedRetry) :
        \E r \in {Scheduler_failure_id(state, epoch, SchedRetry, DenseItemID(e, idx), random)} :
           /\ Bounded(r.state)
           /\ state' = r.state
           /\ ret' = [op |-> "failure_id", kind |-> r.result, stale |-> e # epoch]
           /\ UNCHANGED <<epoch, epochs, clock, published, applied, armed, quiet, schedOthers>>

\* Time passes.
Tick ==
    /\ clock < MaxTime
    /\ clock' = clock + 1
    /\ ret' = [op |-> "tick"]
    /\ UNCHANGED <<state, epoch, epochs, published, applied, armed, quiet, schedOthers>>

Next == Refresh \/ Select \/ Success \/ Failure \/ SuccessId \/ FailureId \/ Tick

Spec == Init /\ [][Next]_vars

\* The scheduler under refresh, select and the clock alone, with the
\* caller's record of the tables published and of the refreshes applied.
NextTracked == RefreshTracked \/ Select \/ Failure \/ Tick

SpecTracked == Init /\ [][NextTracked]_vars

(***************************************************************************)
(* retry.rs: retry_delay called on a Retry configuration, round after      *)
(* round.  The configurations take their fields from small sets; they      *)
(* include the scheduler's one and the one of the specification's retry    *)
(* scenario.                                                               *)
(***************************************************************************)
\* Retry {factor = 100, exp_base = 2, exp_factor = 1, exp_rounds_cap = 20,
\* linear_factor = 0, max_random = 1, addend = 0}.
ScenarioRetry ==
    [factor |-> 100, exp_base |-> 2, exp_factor |-> 1, exp_rounds_cap |-> 20,
     linear_factor |-> 0, linear_rounds_cap |-> None, max_random |-> 1,
     addend |-> 0]

RetryConfigs ==
    {[factor |-> f, exp_base |-> 2, exp_factor |-> 1, exp_rounds_cap |-> c,
      linear_factor |-> l, linear_rounds_cap |-> lc, max_random |-> m,
      addend |-> a] :
        f \in {0, 1, 100}, c \in {0, 2, 20}, l \in {0, 1},
        lc \in {None, Some(1)}, m \in {0, 1, 2}, a \in {0, 50}}

InitRetry ==
    /\ Scheduler_new
    /\ NotifyIdle
    /\ ShutdownIdle
    /\ IDGenIdle
    /\ CodecIdle
    /\ rcfg \in RetryConfigs
    /\ rround = 0
    /\ rout = [kind |-> "NotCalled"]

\* self.retry_delay(n) for some round n: the outcome is kept in rout.
RetryDelay ==
    \E k \in 0..MaxRound :
        \E o \in retry_delay_call(rcfg, k) :
            /\ rround' = k
            /\ rout' = o
            /\ UNCHANGED <<rcfg, retryOthers>>

NextRetry == RetryDelay

SpecRetry == InitRetry /\ [][NextRetry]_vars

(***************************************************************************)
(* sync.rs: Notify.  Every thread holds a clone and calls notify, wait and *)
(* wait_timeout one after the other; the calls of different threads        *)
(* interleave at the points where the mutex is taken or released.  The     *)
(* positions of a thread are                                               *)
(*   "idle"         between two calls,                                     *)
(*   "notify_set"   in notify, holding the guard,                          *)
(*   "wait_check"   in wait, holding the guard, at the loop condition,     *)
(*   "wait_parked"  in wait, inside Condvar::wait, the mutex released,     *)
(*   "wait_wake"    in wait, woken, taking the mutex again,                *)
(*   "wt_check", "wt_parked", "wt_wake"   the same in wait_timeout,        *)
(*   "panicked"     the thread has panicked.                               *)
(* A timeout is a natural number; DurationMax stands for the durations     *)
(* that Instant::now() + timeout cannot represent (Duration::MAX), for     *)
(* which the addition panics while the guard is held.                      *)
(***************************************************************************)
DurationMax == MaxNTime + MaxTimeout + 1

Timeouts == (0..MaxTimeout) \cup {DurationMax}

\* Faulty variant of notify_all: no waiting thread is woken.
notify_all_none(p) == p

\* Condvar::notify_all: every thread waiting on the condition variable is
\* woken.
notify_all(p) ==
    [t \in Threads |-> CASE p[t] = "wait_parked" -> "wait_wake"
                         [] p[t] = "wt_parked" -> "wt_wake"
                         [] OTHER -> p[t]]

\* The call of thread t returns res: the guard (if held) is dropped and the
\* locals of the call are gone.
Return(t, p, op, res) ==
    /\ pc' = [p EXCEPT ![t] = IF res = "Panic" THEN "panicked" ELSE "idle"]
    /\ out' = [out EXCEPT ![t] = [op |-> op, res |-> res]]
    /\ guard' = 0
    /\ deadline' = [deadline EXCEPT ![t] = 0]
    /\ timeout' = [timeout EXCEPT ![t] = 0]
    /\ wakeat' = [wakeat EXCEPT ![t] = 0]

\* Thread t begins the call op and passes self.0.flag.lock(): with the mutex
\* poisoned the call returns Err(MutexPoison), else t holds the guard at the
\* position next.
Lock(t, op, next) ==
    /\ pc[t] = "idle"
    /\ guard = 0
    /\ begun' = [begun EXCEPT ![t] = flag]
    /\ entry' = [entry EXCEPT ![t] = None]
    /\ IF poisoned
       THEN Return(t, pc, op, "MutexPoison")
       ELSE /\ guard' = t
            /\ pc' = [pc EXCEPT ![t] = next]
            /\ out' = [out EXCEPT ![t] = [op |-> op, res |-> "Running"]]
            /\ UNCHANGED <<deadline, timeout, wakeat>>

\* Notify::notify, up to the lock.
NotifyLock(t) ==
    /\ Lock(t, "notify", "notify_set")
    /\ UNCHANGED <<flag, setat, poisoned, ntime, notifyOthers>>

\* Faulty variant of NotifySet: the flag is toggled instead of set.
NotifySet_toggle(t) ==
    /\ pc[t] = "notify_set"
    /\ flag' = ~flag
    /\ setat' = IF setat = None THEN Some(ntime) ELSE setat
    /\ Return(t, notify_all(pc), "notify", "Ok")
    /\ UNCHANGED <<poisoned, begun, entry, ntime, notifyOthers>>

\* Notify::notify, under the lock: *guard = true, notify_all, Ok(()).
NotifySet(t) ==
    /\ pc[t] = "notify_set"
    /\ flag' = TRUE
    /\ setat' = IF setat = None THEN Some(ntime) ELSE setat
    /\ Return(t, notify_all(pc), "notify", "Ok")
    /\ UNCHANGED <<poisoned, begun, entry, ntime, notifyOthers>>

\* Notify::wait, up to the lock.
WaitLock(t) ==
    /\ Lock(t, "wait", "wait_check")
    /\ UNCHANGED <<flag, setat, poisoned, ntime, notifyOthers>>

\* Notify::wait, the loop condition: with the flag set the call returns
\* Ok(()), else the thread waits on the condition variable.
WaitCheck(t) ==
    /\ pc[t] = "wait_check"
    /\ IF flag
       THEN Return(t, pc, "wait", "Ok")
       ELSE /\ pc' = [pc EXCEPT ![t] = "wait_parked"]
            /\ guard' = 0
            /\ UNCHANGED <<out, deadline, timeout, wakeat>>
    /\ UNCHANGED <<flag, setat, poisoned, begun, entry, ntime, notifyOthers>>

\* Condvar::wait returns without a notification (spurious wakeup).
WaitSpurious(t) ==
    /\ pc[t] = "wait_parked"
    /\ pc' = [pc EXCEPT ![t] = "wait_wake"]
    /\ UNCHANGED <<flag, setat, poisoned, guard, deadline, timeout, wakeat, out,
                   begun, entry, ntime, notifyOthers>>

\* Condvar::wait takes the mutex again: Err when it is poisoned.
WaitReacquire(t) ==
    /\ pc[t] = "wait_wake"
    /\ guard = 0
    /\ IF poisoned
       THEN Return(t, pc, "wait", "MutexPoison")
       ELSE /\ guard' = t
            /\ pc' = [pc EXCEPT ![t] = "wait_check"]
            /\ UNCHANGED <<out, deadline, timeout, wakeat>>
    /\ UNCHANGED <<flag, setat, poisoned, begun, entry, ntime, notifyOthers>>

\* Notify::wait_timeout, up to let when = Instant::now() + timeout: the
\* addition panics on overflow, which poisons the mutex.
WtLock(t, d) ==
    /\ pc[t] = "idle"
    /\ guard = 0
    /\ begun' = [begun EXCEPT ![t] = flag]
    /\ entry' = [entry EXCEPT ![t] = Some([at |-> ntime, timeout |-> d])]
    /\ IF poisoned
       THEN Return(t, pc, "wait_timeout", "MutexPoison") /\ UNCHANGED poisoned
       ELSE IF d = DurationMax
       THEN Return(t, pc, "wait_timeout", "Panic") /\ poisoned' = TRUE
       ELSE /\ guard' = t
            /\ pc' = [pc EXCEPT ![t] = "wt_check"]
            /\ out' = [out EXCEPT ![t] = [op |-> "wait_timeout", res |-> "Running"]]
            /\ deadline' = [deadline EXCEPT ![t] = ntime + d]
            /\ timeout' = [timeout EXCEPT ![t] = d]
            /\ UNCHANGED <<wakeat, poisoned>>
    /\ UNCHANGED <<flag, setat, ntime, notifyOthers>>

\* Notify::wait_timeout, the loop condition when < Instant::now() && !*guard:
\* when it holds the thread waits on the condition variable for timeout,
\* else the call returns Ok(*guard).
WtCheck(t) ==
    /\ pc[t] = "wt_check"
    /\ IF deadline[t] < ntime /\ ~flag
       THEN /\ pc' = [pc EXCEPT ![t] = "wt_parked"]
            /\ guard' = 0
            /\ wakeat' = [wakeat EXCEPT ![t] = ntime + timeout[t]]
            /\ UNCHANGED <<out, deadline, timeout>>
       ELSE Return(t, pc, "wait_timeout", IF flag THEN "Ok(true)" ELSE "Ok(false)")
    /\ UNCHANGED <<flag, setat, poisoned, begun, entry, ntime, notifyOthers>>

\* Condvar::wait_timeout returns without a notification (spurious wakeup).
WtSpurious(t) ==
    /\ pc[t] = "wt_parked"
    /\ pc' = [pc EXCEPT ![t] = "wt_wake"]
    /\ UNCHANGED <<flag, setat, poisoned, guard, deadline, timeout, wakeat, out,
                   begun, entry, ntime, notifyOthers>>

\* Condvar::wait_timeout returns because its timeout has elapsed.
WtTimeout(t) ==
    /\ pc[t] = "wt_parked"
    /\ ntime >= wakeat[t]
    /\ pc' = [pc EXCEPT ![t] = "wt_wake"]
    /\ UNCHANGED <<flag, setat, poisoned, guard, deadline, timeout, wakeat, out,
                   begun, entry, ntime, notifyOthers>>

\* Condvar::wait_timeout takes the mutex again: Err when it is poisoned.
WtReacquire(t) ==
    /\ pc[t] = "wt_wake"
    /\ guard = 0
    /\ IF poisoned
       THEN Return(t, pc, "wait_timeout", "MutexPoison")
       ELSE /\ guard' = t
            /\ pc' = [pc EXCEPT ![t] = "wt_check"]
            /\ UNCHANGED <<out, deadline, timeout, wakeat>>
    /\ UNCHANGED <<flag, setat, poisoned, begun, entry, ntime, notifyOthers>>

\* Time passes for the threads.
NTick ==
    /\ ntime < MaxNTime
    /\ ntime' = ntime + 1
    /\ UNCHANGED <<flag, setat, poisoned, guard, pc, deadline, timeout, wakeat,
                   out, begun, entry, notifyOthers>>

InitNotify ==
    Scheduler_new /\ RetryIdle /\ Notify_new /\ ShutdownIdle /\ IDGenIdle /\ CodecIdle

NextNotify ==
    \/ \E t \in Threads : NotifyLock(t)
    \/ \E t \in Threads : NotifySet(t)
    \/ \E t \in Threads : WaitLock(t)
    \/ \E t \in Threads : WaitCheck(t)
    \/ \E t \in Threads : WaitSpurious(t)
    \/ \E t \in Threads : WaitReacquire(t)
    \/ \E t \in Threads, d \in Timeouts : WtLock(t, d)
    \/ \E t \in Threads : WtCheck(t)
    \/ \E t \in Threads : WtSpurious(t)
    \/ \E t \in Threads : WtTimeout(t)
    \/ \E t \in Threads : WtReacquire(t)
    \/ NTick

SpecNotify == InitNotify /\ [][NextNotify]_vars

(***************************************************************************)
(* shutdown.rs: ShutdownFlag.  Every clone shares one AtomicBool; a load   *)
(* or a store of it is one step.  seen[c] is the last call made on the     *)
(* clone c with the boolean it returned (for set and underlying, the       *)
(* content of the AtomicBool after the call).                              *)
(***************************************************************************)
\* ShutdownFlag::is_shutdown: self.flag.load(Ordering::Acquire).
is_shutdown(f) == f

\* ShutdownFlag::is_live: !self.is_shutdown().
is_live(f) == ~is_shutdown(f)

\* is_shutdown called on the clone c.
IsShutdown(c) ==
    /\ seen' = [seen EXCEPT ![c] = [op |-> "is_shutdown", val |-> is_shutdown(shutdown)]]
    /\ UNCHANGED <<shutdown, wasset, shutdownOthers>>

\* is_live called on the clone c.
IsLive(c) ==
    /\ seen' = [seen EXCEPT ![c] = [op |-> "is_live", val |-> is_live(shutdown)]]
    /\ UNCHANGED <<shutdown, wasset, shutdownOthers>>

\* Faulty variant of ShutdownSet: the flag is flipped instead of stored true.
ShutdownSet_flip(c) ==
    /\ shutdown' = ~shutdown
    /\ wasset' = TRUE
    /\ seen' = [seen EXCEPT ![c] = [op |-> "set", val |-> shutdown']]
    /\ UNCHANGED shutdownOthers

\* ShutdownFlag::set called on the clone c:
\* self.flag.store(true, Ordering::Release).
ShutdownSet(c) ==
    /\ shutdown' = TRUE
    /\ wasset' = TRUE
    /\ seen' = [seen EXCEPT ![c] = [op |-> "set", val |-> shutdown']]
    /\ UNCHANGED shutdownOthers

\* ShutdownFlag::underlying called on the clone c: a handle on the AtomicBool
\* is returned, nothing is stored.
Underlying(c) ==
    /\ seen' = [seen EXCEPT ![c] = [op |-> "underlying", val |-> shutdown]]
    /\ UNCHANGED <<shutdown, wasset, shutdownOthers>>

InitShutdown ==
    Scheduler_new /\ RetryIdle /\ NotifyIdle /\ ShutdownFlag_new /\ IDGenIdle /\ CodecIdle

NextShutdown ==
    \/ \E c \in Clones : IsShutdown(c)
    \/ \E c \in Clones : IsLive(c)
    \/ \E c \in Clones : ShutdownSet(c)
    \/ \E c \in Clones : Underlying(c)

SpecShutdown == InitShutdown /\ [][NextShutdown]_vars

(***************************************************************************)
(* ids.rs: SharedIDGen over AscendingCount.  Every caller calls next, one  *)
(* call after the other; the calls of different callers interleave at the  *)
(* points where the mutex is taken or released.  The positions of a caller *)
(* are                                                                     *)
(*   "idle"      between two calls,                                        *)
(*   "locked"    holding the guard, before let out = self.curr,            *)
(*   "incr"      holding the guard, before self.curr += 1,                 *)
(*   "return"    the guard dropped, about to return Some(out).             *)
(* issued lists the returns in the order they happen.                      *)
(***************************************************************************)
\* Faulty variant of IdLock: the mutex is not waited for.
IdLock_nomutex(k) ==
    /\ ipc[k] = "idle"
    /\ curr < MaxIds
    /\ inner' = k
    /\ ipc' = [ipc EXCEPT ![k] = "locked"]
    /\ UNCHANGED <<curr, got, issued, idgenOthers>>

\* SharedIDGen::next, self.inner.lock(): the caller k takes the mutex.
IdLock(k) ==
    /\ ipc[k] = "idle"
    /\ inner = 0
    /\ curr < MaxIds
    /\ inner' = k
    /\ ipc' = [ipc EXCEPT ![k] = "locked"]
    /\ UNCHANGED <<curr, got, issued, idgenOthers>>

\* AscendingCount::next under the guard: let out = self.curr.
IdRead(k) ==
    /\ ipc[k] = "locked"
    /\ got' = [got EXCEPT ![k] = Some(curr)]
    /\ ipc' = [ipc EXCEPT ![k] = "incr"]
    /\ UNCHANGED <<curr, inner, issued, idgenOthers>>

\* AscendingCount::next under the guard: self.curr += 1; Some(out) leaves
\* the closure and the guard is dropped.
IdIncr(k) ==
    /\ ipc[k] = "incr"
    /\ curr' = curr + 1
    /\ inner' = 0
    /\ ipc' = [ipc EXCEPT ![k] = "return"]
    /\ UNCHANGED <<got, issued, idgenOthers>>

\* SharedIDGen::next returns what the closure gave.
IdReturn(k) ==
    /\ ipc[k] = "return"
    /\ issued' = Append(issued, [caller |-> k, val |-> got[k]])
    /\ got' = [got EXCEPT ![k] = None]
    /\ ipc' = [ipc EXCEPT ![k] = "idle"]
    /\ UNCHANGED <<curr, inner, idgenOthers>>

InitIDGen ==
    Scheduler_new /\ RetryIdle /\ NotifyIdle /\ ShutdownIdle /\ SharedIDGen_create /\ CodecIdle

NextIDGen ==
    \/ \E k \in Callers : IdLock(k)
    \/ \E k \in Callers : IdRead(k)
    \/ \E k \in Callers : IdIncr(k)
    \/ \E k \in Callers : IdReturn(k)

SpecIDGen == InitIDGen /\ [][NextIDGen]_vars

(***************************************************************************)
(* codec/per.rs: the BytestreamCodec of PERCodec.  The payload is what     *)
(* Codec::encode produced; only its length in bytes matters here.  What is *)
(* on the stream is [prefix, payload]: the two bytes of the prefix and the *)
(* number of payload bytes that follow.                                    *)
(***************************************************************************)
\* x >> k and x << k on usize.
Shr(x, k) == x \div Pow(2, k)

Shl(x, k) == x * Pow(2, k)

\* x & 0xff.
LowByte(x) == x % 256

\* x | y on usize.
RECURSIVE BitOr(_, _)
BitOr(x, y) ==
    IF x = 0 THEN y
    ELSE IF y = 0 THEN x
    ELSE (IF x % 2 = 1 \/ y % 2 = 1 THEN 1 ELSE 0) + 2 * BitOr(x \div 2, y \div 2)

\* encode_to_stream: buf[0] = (nbytes & 0xff) as u8 and
\* buf[1] = ((nbytes >> 1) & 0xff) as u8.
length_prefix(nbytes) == <<LowByte(nbytes), LowByte(Shr(nbytes, 1))>>

\* decode_from_stream: (lenbuf[0] as usize) | (lenbuf[1] as usize) << 1.
prefix_length(lenbuf) == BitOr(lenbuf[1], Shl(lenbuf[2], 1))

\* encode_to_stream for a value that Codec::encode turns into nbytes bytes:
\* what is written to the stream and what is returned.
encode_to_stream(nbytes) ==
    [wrote |-> [prefix |-> length_prefix(nbytes), payload |-> nbytes],
     result |-> [kind |-> "Ok", produced |-> nbytes + 2]]

\* decode_from_stream on a stream holding bytes: the outcomes.  read_exact
\* fails when fewer than len payload bytes are there; else len bytes are
\* taken and handed to Codec::decode, which succeeds on a whole payload and
\* may or may not succeed on a truncated one.
decode_from_stream(bytes) ==
    LET len == prefix_length(bytes.prefix)
    IN IF bytes.payload < len
       THEN {[rest |-> None, result |-> [kind |-> "IO"]]}
       ELSE {[rest |-> Some(bytes.payload - len),
              result |-> IF k = "Ok"
                         THEN [kind |-> "Ok", len |-> len, consumed |-> len + 2]
                         ELSE [kind |-> "Codec", len |-> len]] :
                 k \in (IF len = bytes.payload THEN {"Ok"} ELSE {"Ok", "Codec"})}

\* A value is encoded to the empty stream.
EncodeToStream ==
    /\ stream = None
    /\ encoded = None
    /\ \E nbytes \in 0..MaxPayload :
          /\ stream' = Some(encode_to_stream(nbytes).wrote)
          /\ encoded' = Some(encode_to_stream(nbytes).result)
    /\ UNCHANGED <<decoded, codecOthers>>

\* The datagram on the stream is decoded.
DecodeFromStream ==
    /\ stream # None
    /\ decoded = None
    /\ \E r \in decode_from_stream(stream[1]) :
          /\ decoded' = Some(r.result)
          /\ stream' = IF r.rest = None THEN None
                       ELSE Some([prefix |-> <<>>, payload |-> r.rest[1]])
    /\ UNCHANGED <<encoded, codecOthers>>

InitCodec ==
    /\ Scheduler_new /\ RetryIdle /\ NotifyIdle /\ ShutdownIdle /\ IDGenIdle
    /\ PERCodec_create

NextCodec == EncodeToStream \/ DecodeFromStream

SpecCodec == InitCodec /\ [][NextCodec]_vars

(***************************************************************************)
(* Properties of the scheduler.                                            *)
(***************************************************************************)
\* The record at the dense index idx.
RecordAt(st, idx) == Records(st)[idx + 1]

\* Every record but the one at idx is the same in st and in post.
OthersUnchanged(st, post, idx) ==
    /\ Len(Records(post)) = Len(Records(st))
    /\ \A j \in DOMAIN Records(st) : j # idx + 1 => Records(post)[j] = Records(st)[j]

\* C1: for every refresh that is applied (not stale, at least one admissible
\* item) and finds the epoch iterator non-empty, the epoch after the call
\* differs from the epoch before it if and only if the set of (item, origin)
\* pairs of the filtered input differs from the set of pairs held before.
C1_EpochChangesIffSetDiffers ==
    \A now \in Times, iter \in Inputs :
        (Applied(state, now, iter) /\ epochs_next(epochs) # None) =>
            \A r \in RefreshOutcomes(state, epoch, epochs, now, iter) :
                (r.epoch # epoch) <=>
                    ({iter[i] : i \in {j \in DOMAIN iter : check(iter[j][1])}}
                        # HeldPairs(state))

\* C2: whenever select returns Success((item, origin, id)), id.epoch is the
\* id of the most recent EpochChange returned by refresh and the dense_ids
\* table of that EpochChange has (item, origin) at index id.idx.
C2_DenseIdNamesPublishedPair ==
    (ret.op = "select" /\ ret.result.kind = "Success") =>
        /\ published # None
        /\ published[1].id = ret.result.id.epoch
        /\ ret.result.id.id < Len(published[1].dense_ids)
        /\ published[1].dense_ids[ret.result.id.id + 1] =
               <<ret.result.item, ret.result.origin>>

\* C3: success_id and failure_id called with a DenseItemID of another epoch
\* than the current one return Ok(()) and change neither a record, nor the
\* state variant, nor the epoch, whatever the index and the state.
C3_StaleIdIgnored ==
    [][(ret'.op \in {"success_id", "failure_id"} /\ ret'.stale) =>
           (ret'.kind = "Ok" /\ state' = state /\ epoch' = epoch /\ epochs' = epochs)]_vars

\* C3 witness: a stale dense ID was reported to a scheduler in Multi state
\* whose epoch has advanced twice.
C3_Witness ==
    /\ ret.op = "failure_id" /\ ret.stale /\ ret.kind = "Ok"
    /\ state.tag = "Multi" /\ epoch = 2

\* C4: for the DenseItemID select has just issued (so one of the current
\* epoch), failure_id invokes history.failure on exactly the indexed record
\* and arms its delay_until, success_id invokes history.success on exactly
\* that record and leaves its delay_until None, and no other record changes;
\* in Single as in Multi state.
C4_ReportByIdActsOnIndexedRecord ==
    (ret.op = "select" /\ ret.result.kind = "Success") =>
        LET id == ret.result.id
            old == RecordAt(state, id.id)
        IN /\ \A random \in RandomRange(SchedRetry) :
                  LET f == Scheduler_failure_id(state, epoch, SchedRetry, id, random)
                  IN /\ f.result = "Ok"
                     /\ RecordAt(f.state, id.id).history = History_failure(old.history)
                     /\ RecordAt(f.state, id.id).delay_until # None
                     /\ OthersUnchanged(state, f.state, id.id)
           /\ LET g == Scheduler_success_id(state, epoch, id)
              IN /\ g.result = "Ok"
                 /\ RecordAt(g.state, id.id).history = History_success(old.history)
                 /\ RecordAt(g.state, id.id).delay_until = None
                 /\ OthersUnchanged(state, g.state, id.id)

\* C5: in every reachable state a record whose delay_until is Some(t) has had
\* at least one failure reported since the last success reported on it (the
\* history counts them: nretries > 0); a success leaves delay_until None.
C5_DelayOnlyAfterFailure ==
    \A i \in DOMAIN Records(state) :
        Records(state)[i].delay_until # None => nretries(Records(state)[i].history) > 0

\* C6: when failure(item, origin) returns Ok and a record is held for
\* (item, origin), with last_use L and nretries() = n before the call, then
\* afterwards that record has delay_until = Some(L + retry_delay(n)), its
\* history is the old one with history.failure applied once, its last_use is
\* L, and no other record has changed; in Single as in Multi state.
C6_FailureArmsDelayFromPriorRetries ==
    \A p \in Pairs, random \in RandomRange(SchedRetry) :
        LET r == Scheduler_failure(state, SchedRetry, p[1], p[2], random)
        IN (r.result = "Ok" /\ Hits(state, p) # {}) =>
               \E idx \in Hits(state, p) :
                   LET old == RecordAt(state, idx)
                   IN /\ RecordAt(r.state, idx) =
                             [history |-> History_failure(old.history),
                              last_use |-> old.last_use,
                              delay_until |->
                                  Some(old.last_use +
                                       retry_delay(SchedRetry, nretries(old.history), random))]
                      /\ OthersUnchanged(state, r.state, idx)

\* C6 witness: a second failure in a row was reported by value on a record in
\* Multi state (n = 1 before the call, so the delay is retry_delay(1) = 2).
C6_Witness ==
    /\ ret.op = "failure" /\ ret.kind = "Ok" /\ state.tag = "Multi"
    /\ \E i \in DOMAIN Records(state) :
           /\ Records(state)[i].history.failures = 2
           /\ Records(state)[i].delay_until = Some(Records(state)[i].last_use + 2)

\* C7: success(item, origin) and failure(item, origin) return BadItem and
\* leave every record unchanged whenever the scheduler, in Single or Multi
\* state, holds no record for (item, origin).
C7_UnknownPairIsBadItem ==
    \A p \in Pairs, random \in RandomRange(SchedRetry) :
        (state.tag # "Uninit" /\ Hits(state, p) = {}) =>
            /\ Scheduler_success(state, p[1], p[2]) = [state |-> state, result |-> "BadItem"]
            /\ Scheduler_failure(state, SchedRetry, p[1], p[2], random) =
                   [state |-> state, result |-> "BadItem"]

\* C8: in Uninit, success and failure return the Uninit error, select returns
\* the Empty error, and none of them changes the state or the epoch.
C8_UninitRejectsReportsAndSelect ==
    [][state.tag = "Uninit" =>
           /\ ret'.op \in {"success", "failure"} =>
                  (ret'.kind = "Uninit" /\ state' = state /\ epoch' = epoch /\ epochs' = epochs)
           /\ ret'.op = "select" =>
                  (ret'.result.kind = "Empty" /\ state' = state /\ epoch' = epoch
                      /\ epochs' = epochs)]_vars

\* C8 witness: select was called on the uninitialized scheduler and returned
\* Empty.
C8_Witness == state.tag = "Uninit" /\ ret.op = "select" /\ ret.result.kind = "Empty"

\* C9: a refresh whose timestamp is at most the timestamp of the most recent
\* refresh that was applied is dropped: it returns Ok(None) and changes
\* neither the records, nor the state variant, nor the epoch.
C9_LateRefreshDropped ==
    \A now \in Times, iter \in Inputs :
        (applied # None /\ now <= applied[1]) =>
            \A r \in RefreshOutcomes(state, epoch, epochs, now, iter) :
                r = [state |-> state, epoch |-> epoch, epochs |-> epochs,
                     result |-> [kind |-> "None"]]

\* C10: a refresh that is not stale and whose input holds no admissible item
\* returns NoValidItems and leaves the state, the records, the epoch and the
\* epoch iterator unchanged.
C10_NoValidItemsChangesNothing ==
    \A now \in Times, iter \in Inputs :
        (need_refresh(state, now) /\ \A i \in DOMAIN iter : ~check(iter[i][1])) =>
            \A r \in RefreshOutcomes(state, epoch, epochs, now, iter) :
                r = [state |-> state, epoch |-> epoch, epochs |-> epochs,
                     result |-> [kind |-> "NoValidItems"]]

\* C10 witness: a refresh holding only rejected items returned NoValidItems
\* to a scheduler in Multi state whose records carry history.
C10_Witness ==
    /\ ret.op = "refresh" /\ ret.kind = "NoValidItems"
    /\ state.tag = "Multi" /\ Events(Records(state)) > 0

\* The timestamps a second refresh can carry: later than some first one.
LaterTimes == 1..(MaxTime + 1)

\* refresh(t2, iter) called right after refresh(t1, iter) returned r1 gives
\* Ok(None) and leaves the state, the epoch and the epoch iterator alone.
RepeatIsNoChange(r1, t2, iter) ==
    \A r2 \in RefreshOutcomes(r1.state, r1.epoch, r1.epochs, t2, iter) :
        r2 = [state |-> r1.state, epoch |-> r1.epoch, epochs |-> r1.epochs,
              result |-> [kind |-> "None"]]

\* C11 as stated: in every reachable state, for every input with at least one
\* admissible item and all timestamps t1 < t2, refresh(t2, S) called after
\* refresh(t1, S) returns Ok(None), keeps the epoch and changes no record.
C11_RepeatedRefreshIsNoChange ==
    \A t1 \in Times, t2 \in LaterTimes, iter \in Inputs :
        (t1 < t2 /\ \E i \in DOMAIN iter : check(iter[i][1])) =>
            \A r1 \in RefreshOutcomes(state, epoch, epochs, t1, iter) :
                RepeatIsNoChange(r1, t2, iter)

\* C11 amended: the same, provided the first refresh is not dropped as stale
\* (t1 is later than the latest timestamp the scheduler holds).
C11_RepeatedAppliedRefreshIsNoChange ==
    \A t1 \in Times, t2 \in LaterTimes, iter \in Inputs :
        (t1 < t2 /\ Applied(state, t1, iter)) =>
            \A r1 \in RefreshOutcomes(state, epoch, epochs, t1, iter) :
                RepeatIsNoChange(r1, t2, iter)

\* C11 witness: a scheduler in Multi state whose records carry history and
\* on which a refresh at the timestamp 1 is applied and changes the records
\* held (so that the repeated refresh meets the new records).
C11_Witness ==
    /\ state.tag = "Multi" /\ Events(Records(state)) > 0
    /\ \E iter \in Inputs :
           /\ Applied(state, 1, iter)
           /\ \E r1 \in RefreshOutcomes(state, epoch, epochs, 1, iter) :
                  r1.result.kind = "Change" /\ r1.state.tag = "Multi"

\* C12: the dense_ids table of every EpochChange refresh returns has as many
\* entries as there are distinct (item, origin) pairs in the filtered input
\* of that refresh, inputs that list a pair more than once included.
C12_DenseTableLengthIsDistinctPairs ==
    \A now \in Times, iter \in Inputs :
        \A r \in RefreshOutcomes(state, epoch, epochs, now, iter) :
            r.result.kind = "Change" =>
                Len(r.result.change.dense_ids) = Cardinality(Range(filter(iter)))

\* The (item, origin) pairs of the filtered input of a refresh.
FilteredPairs(iter) == Range(filter(iter))

\* C13: whenever an applied refresh brings an item that is held before the
\* call under another origin only, the record held afterwards for the item
\* under its new origin is a fresh one (new History, delay_until = None,
\* last_use = the refresh timestamp); for Single->Single, Single->Multi,
\* Multi->Single and Multi->Multi refreshes.
C13_OriginChangeGivesFreshRecord ==
    \A now \in Times, iter \in Inputs :
        Applied(state, now, iter) =>
            \A r \in RefreshOutcomes(state, epoch, epochs, now, iter) :
                \A p \in FilteredPairs(iter) :
                    (p \notin HeldPairs(state) /\ \E q \in HeldPairs(state) : q[1] = p[1]) =>
                        /\ Hits(r.state, p) # {}
                        /\ \A idx \in Hits(r.state, p) :
                               RecordAt(r.state, idx) = Record_new(now)

\* C14: whenever an (item, origin) pair is held before an applied refresh and
\* is in the filtered input of that refresh, a record is held for it
\* afterwards and it has the history, last_use and delay_until of a record
\* held for the pair before; for Single->Multi and Multi->Single as for
\* Single->Single and Multi->Multi refreshes.
C14_PersistingPairKeepsRecord ==
    \A now \in Times, iter \in Inputs :
        Applied(state, now, iter) =>
            \A r \in RefreshOutcomes(state, epoch, epochs, now, iter) :
                \A p \in FilteredPairs(iter) \cap HeldPairs(state) :
                    /\ Hits(r.state, p) # {}
                    /\ \A idx \in Hits(r.state, p) :
                           \E old \in Hits(state, p) :
                               RecordAt(r.state, idx) = RecordAt(state, old)

\* The set of pairs of an added or removed list, None standing for no pair.
ListedPairs(opt) == IF opt = None THEN {} ELSE Range(opt[1])

\* C15: for every refresh that returns an EpochChange, with Old the pairs
\* held before the call and New the pairs of the filtered input, added lists
\* exactly the pairs in New and not in Old and removed lists exactly the
\* pairs in Old and not in New; an item whose origin changes is listed in
\* both.
C15_AddedRemovedAreSetDifferences ==
    \A now \in Times, iter \in Inputs :
        \A r \in RefreshOutcomes(state, epoch, epochs, now, iter) :
            r.result.kind = "Change" =>
                /\ ListedPairs(r.result.change.added) =
                       FilteredPairs(iter) \ HeldPairs(state)
                /\ ListedPairs(r.result.change.removed) =
                       HeldPairs(state) \ FilteredPairs(iter)

\* The records select chooses among in the MultiSched self.
Selectable(self) == {self.items[idx + 1].record : idx \in Range(self.ordering)}

\* C16: in Multi state with equal scores (and a policy that returns Equal),
\* select returns Success for a record without delay whenever at least one
\* record has delay_until = None, and returns Retry(ts) only when every
\* record has a delay_until set, ts being the earliest of them.
C16_RetryOnlyWhenNothingUsable ==
    (state.tag = "Multi" /\ \A a, b \in Selectable(state.sched) :
                                cmp_scores(a, b) = "Equal") =>
        \A ordering \in fixup_ordering(state.sched) :
            LET r == select(state, epoch, ordering, clock).result
                recs == Selectable(state.sched)
            IN IF \E rec \in recs : rec.delay_until = None
               THEN /\ r.kind = "Success"
                    /\ RecordAt(state, r.id.id).delay_until = None
               ELSE /\ r.kind = "Retry"
                    /\ r.when = Min({rec.delay_until[1] : rec \in recs})

\* Scenario A has been played on a new scheduler: refresh at the timestamp 0
\* with [(A,o1)], then refresh at the timestamp 1 with [(A,o1),(B,o1)], and
\* neither select nor a report since.  The epochs are 1 and then 2.
ScenarioA ==
    /\ epoch = 2
    /\ state = Multi([ids |-> [it \in {"A", "B"} |-> IF it = "A" THEN 0 ELSE 1],
                      items |-> <<Entry("A", "o1", Record_new(0)),
                                  Entry("B", "o1", Record_new(1))>>,
                      ordering |-> <<0, 1>>], 1)

\* C17 as stated: after Scenario A select returns Success with the dense id
\* (E2, 0): the record at the lower dense index, A, wins.
C17_ScenarioASelectsLowerIndex ==
    ScenarioA =>
        \A ordering \in fixup_ordering(state.sched) :
            select(state, epoch, ordering, clock).result =
                [kind |-> "Success", item |-> "A", origin |-> "o1",
                 id |-> DenseItemID(2, 0)]

\* C17 amended: after Scenario A select returns Success with the dense id
\* (E2, 1): the delay-less records do not tie, B was created by the later
\* refresh and the record with the later last_use is preferred.
C17_ScenarioASelectsLaterLastUse ==
    ScenarioA =>
        \A ordering \in fixup_ordering(state.sched) :
            select(state, epoch, ordering, clock).result =
                [kind |-> "Success", item |-> "B", origin |-> "o1",
                 id |-> DenseItemID(2, 1)]

\* C17 witness: select has just answered (B, o1, (E2, 1)) in the state
\* Scenario A leaves, the record of A being as the first refresh made it.
C17_Witness ==
    /\ ret.op = "select" /\ ret.result.kind = "Success"
    /\ ret.result.item = "B" /\ ret.result.id = DenseItemID(2, 1)
    /\ state.tag = "Multi" /\ Len(state.sched.items) = 2
    /\ state.sched.items[1] = Entry("A", "o1", Record_new(0))
    /\ state.sched.items[2].record.history = History_new

(***************************************************************************)
(* Properties of retry_delay.                                              *)
(***************************************************************************)
\* C18: with the Retry of the retry scenario, retry_delay(n) is
\* 100 * 2^min(n, 20) microseconds for every round n (100, 200, 400, ...),
\* it never decreases as n grows and it stays at the value of round 20 from
\* round 20 on.
C18_ScenarioDelayIsCappedExponential ==
    (rcfg = ScenarioRetry /\ rout.kind # "NotCalled") =>
        /\ rout = [kind |-> "Ok", delay |-> 100 * Pow(2, IF rround < 20 THEN rround ELSE 20)]
        /\ \A m \in 0..rround :
               \A o \in retry_delay_call(ScenarioRetry, m) :
                   /\ o.kind = "Ok" /\ o.delay <= rout.delay
                   /\ (m >= 20 => o.delay = rout.delay)

\* C18 witness: retry_delay was called with a round beyond the cap and gave
\* the delay of round 20.
C18_Witness ==
    /\ rcfg = ScenarioRetry /\ rround > 20
    /\ rout = [kind |-> "Ok", delay |-> 100 * Pow(2, 20)]

\* C19: retry_delay is total: for every round and every configuration with
\* natural factor, addend, max_random and rounds caps, max_random = 0
\* included, the call returns a Duration and never aborts.
C19_RetryDelayIsTotal == rout.kind \in {"NotCalled", "Ok"}

(***************************************************************************)
(* Properties of Notify.                                                   *)
(***************************************************************************)
\* The flag starts unset, a notify that returns Ok leaves it set and no step
\* of any call unsets it.
FlagLatched ==
    /\ ~flag
    /\ [][/\ flag => flag'
          /\ \A t \in Threads :
                 (pc[t] = "notify_set" /\ pc'[t] = "idle") => flag']_vars

FairNotify ==
    \A t \in Threads :
        /\ WF_vars(NotifySet(t))
        /\ WF_vars(WaitCheck(t))
        /\ WF_vars(WtCheck(t))
        /\ SF_vars(WaitReacquire(t))
        /\ SF_vars(WtReacquire(t))

SpecNotifyFair == SpecNotify /\ FairNotify

\* The thread t is inside wait.
InWait(t) == pc[t] \in {"wait_check", "wait_parked", "wait_wake"}

\* The call of wait of the thread t returns in this step.
WaitReturns(t) == out[t].op = "wait" /\ out[t].res = "Running" /\ pc'[t] = "idle"

NotifiedBeforeDeadline(t) ==
    /\ entry[t] # None
    /\ entry[t][1].timeout > 0
    /\ setat # None
    /\ setat[1] < entry[t][1].at + entry[t][1].timeout

\* C22: a call wait_timeout(d) with d > 0 whose deadline comes after the
\* time notify set the flag never returns Ok(false).
C22_NotifyBeforeDeadlineGivesTrue ==
    \A t \in Threads :
        (pc[t] = "idle" /\ out[t].op = "wait_timeout" /\ NotifiedBeforeDeadline(t))
            => out[t].res # "Ok(false)"

\* C23: a call of wait_timeout returns Ok(false) only once its timeout has
\* elapsed since the call, and a call begun with the flag set returns
\* Ok(true).
C23_FalseOnlyAfterTimeout ==
    /\ [][\A t \in Threads :
            (pc[t] = "wt_check" /\ pc'[t] = "idle" /\ out'[t].res = "Ok(false)")
                => ntime >= deadline[t]]_vars
    /\ [](\A t \in Threads :
            (pc[t] = "idle" /\ out[t].op = "wait_timeout"
                /\ out[t].res \in {"Ok(true)", "Ok(false)"} /\ begun[t])
                => out[t].res = "Ok(true)")

(***************************************************************************)
(* Properties of ShutdownFlag.                                             *)
(***************************************************************************)
\* C24: the flag is live until set is called on some clone; from then on a
\* call of is_shutdown gives true and a call of is_live gives false on
\* every clone, in every later state, every result returned after the set
\* says so, and no step clears the flag.
C24_ShutdownIsMonotoneAndShared ==
    /\ [](~wasset => is_live(shutdown) /\ ~is_shutdown(shutdown))
    /\ [](wasset => is_shutdown(shutdown) /\ ~is_live(shutdown))
    /\ [][shutdown => shutdown']_vars
    /\ [][\A c \in Clones :
            (wasset /\ seen'[c] # seen[c]) =>
                /\ seen'[c].op = "is_shutdown" => seen'[c].val
                /\ seen'[c].op = "is_live" => ~seen'[c].val]_vars

\* After a set on one clone, is_shutdown on a second clone has returned true
\* and is_live on a third has returned false.
C24_Witness ==
    \E c1 \in Clones, c2 \in Clones, c3 \in Clones :
        /\ seen[c1] = [op |-> "set", val |-> TRUE]
        /\ seen[c2] = [op |-> "is_shutdown", val |-> TRUE]
        /\ seen[c3] = [op |-> "is_live", val |-> FALSE]

(***************************************************************************)
(* Properties of SharedIDGen.                                              *)
(***************************************************************************)
\* The values the calls of next have returned.
IssuedValues == {issued[i].val[1] : i \in {j \in DOMAIN issued : issued[j].val # None}}

\* The values taken from the counter by calls that have not returned yet.
HeldValues == {got[k][1] : k \in {j \in Callers : got[j] # None /\ ipc[j] = "return"}}

\* C25: every call of next returns Some value, no value is returned twice,
\* the values returned, with those about to be returned, are exactly
\* 0 .. curr - 1, and the values one caller gets are strictly ascending.
C25_SharedNextIsSerialised ==
    /\ \A i \in DOMAIN issued : issued[i].val # None
    /\ \A i \in DOMAIN issued, j \in DOMAIN issued :
          i # j => issued[i].val # issued[j].val
    /\ IssuedValues \cap HeldValues = {}
    /\ IssuedValues \cup HeldValues = 0..(curr - 1)
    /\ \A i \in DOMAIN issued, j \in DOMAIN issued :
          (i < j /\ issued[i].caller = issued[j].caller)
              => issued[i].val[1] < issued[j].val[1]

\* Both callers have been given values, and a value taken later from the
\* counter has been returned before one taken earlier.
C25_Witness ==
    /\ Len(issued) = MaxIds
    /\ {issued[i].caller : i \in DOMAIN issued} = Callers
    /\ \E i \in DOMAIN issued, j \in DOMAIN issued :
          i < j /\ issued[i].val[1] > issued[j].val[1]

(***************************************************************************)
(* Properties of the scheduler: admission, state variants, the id map and  *)
(* the order select follows.                                               *)
(***************************************************************************)
\* Every pair of the set is of an item the policy admits.
AllAdmitted(S) == \A p \in S : check(p[1])

\* C26: no record is held for an item the policy rejects; no EpochChange a
\* refresh returns lists such an item in dense_ids, added or removed; select
\* never returns one; and a refresh whose input holds rejected items only
\* has the outcomes of the refresh with the empty input.
C26_RejectedItemNeverEnters ==
    /\ AllAdmitted(HeldPairs(state))
    /\ \A now \in Times, iter \in Inputs :
          \A r \in RefreshOutcomes(state, epoch, epochs, now, iter) :
              /\ AllAdmitted(HeldPairs(r.state))
              /\ r.result.kind = "Change" =>
                     /\ AllAdmitted(Range(r.result.change.dense_ids))
                     /\ AllAdmitted(ListedPairs(r.result.change.added))
                     /\ AllAdmitted(ListedPairs(r.result.change.removed))
    /\ \A now \in Times, iter \in Inputs :
          (\A i \in DOMAIN iter : ~check(iter[i][1])) =>
              RefreshOutcomes(state, epoch, epochs, now, iter) =
                  RefreshOutcomes(state, epoch, epochs, now, <<>>)
    /\ (ret.op = "select" /\ ret.result.kind = "Success") => check(ret.result.item)

\* C26 witness: select has returned an item of a scheduler in Multi state
\* to which a refresh mixing the rejected item with admitted ones can be
\* applied with an EpochChange as result.
C26_Witness ==
    /\ ret.op = "select" /\ ret.result.kind = "Success"
    /\ state.tag = "Multi"
    /\ \E now \in Times, iter \in Inputs :
          /\ \E i \in DOMAIN iter : ~check(iter[i][1])
          /\ \E i \in DOMAIN iter : check(iter[i][1])
          /\ \E r \in RefreshOutcomes(state, epoch, epochs, now, iter) :
                 r.result.kind = "Change"

\* The distinct items held.
HeldItems(st) == {p[1] : p \in HeldPairs(st)}

\* C27: the state is Uninit exactly as long as no refresh has been applied
\* (none that was not stale and had an admissible item), Single holds one
\* item, and Multi holds at least two distinct items.
C27_VariantMatchesItemCount ==
    /\ state.tag = "Uninit" <=> applied = None
    /\ state.tag = "Single" => Cardinality(HeldItems(state)) = 1
    /\ state.tag = "Multi" => Cardinality(HeldItems(state)) >= 2

\* C28: in Multi state the id map is a bijection between the distinct items
\* held and the indexes of the records: its keys are the items held, no two
\* items have the same index, and every index of a record is the index of
\* some item.
C28_IdMapIsBijection ==
    state.tag = "Multi" =>
        LET ids == state.sched.ids
        IN /\ DOMAIN ids = HeldItems(state)
           /\ \A a \in DOMAIN ids, b \in DOMAIN ids : ids[a] = ids[b] => a = b
           /\ {ids[a] : a \in DOMAIN ids} = 0..(Len(Records(state)) - 1)

\* The order the front record is minimal for: higher score first, then the
\* policy comparison, then records with no delay_until before records with
\* one, then the earlier delay_until, then the more recent last_use.
FrontOrder(a, b) ==
    LET s == cmp_scores(a.record, b.record)
        q == cmp_items(a.item, b.item)
        ra == a.record
        rb == b.record
    IN CASE s = "Greater" -> "Less"
         [] s = "Less" -> "Greater"
         [] q # "Equal" -> q
         [] ra.delay_until = None /\ rb.delay_until # None -> "Less"
         [] ra.delay_until # None /\ rb.delay_until = None -> "Greater"
         [] ra.delay_until # None /\ rb.delay_until # None
                /\ ra.delay_until # rb.delay_until ->
              IntCmp(ra.delay_until[1], rb.delay_until[1])
         [] OTHER -> IntCmp(rb.last_use, ra.last_use)

\* C29: in Multi state, whatever order the sort of select leaves, no record
\* of the order comes before the front one in the order of FrontOrder.
C29_FrontIsMinimal ==
    state.tag = "Multi" =>
        \A ordering \in fixup_ordering(state.sched) :
            \A idx \in Range(ordering) :
                FrontOrder(state.sched.items[ordering[1] + 1],
                           state.sched.items[idx + 1]) # "Greater"

\* The dense index of the record select examines.
FrontIndex(st, ordering) == IF st.tag = "Multi" THEN ordering[1] ELSE 0

\* C30: select on the front record (Multi) or the single record (Single):
\* without delay_until it sets last_use to now and returns Success; with
\* delay_until = Some(t) it returns Retry(t), leaves last_use alone, and
\* clears delay_until if t <= now and keeps it if t > now.
C30_SelectOutcome ==
    state.tag \in {"Single", "Multi"} =>
        \A ordering \in (IF state.tag = "Multi" THEN fixup_ordering(state.sched) ELSE {<<>>}) :
            LET r == select(state, epoch, ordering, clock)
                idx == FrontIndex(state, ordering)
                old == RecordAt(state, idx)
                new == RecordAt(r.state, idx)
            IN IF old.delay_until = None
               THEN /\ r.result.kind = "Success"
                    /\ new.last_use = clock
               ELSE /\ r.result = [kind |-> "Retry", when |-> old.delay_until[1]]
                    /\ new.last_use = old.last_use
                    /\ new.delay_until =
                           IF old.delay_until[1] <= clock THEN None ELSE old.delay_until

\* The record self with the failure reported once and the delay armed for
\* the round n.
FailedRecord(self, n, random) ==
    [history |-> History_failure(self.history),
     last_use |-> self.last_use,
     delay_until |-> Some(self.last_use + retry_delay(SchedRetry, n, random))]

\* C31: in Multi state, for every record (last_use L, nretries() = n),
\* failure_id with its index and the current epoch returns Ok and leaves the
\* record with delay_until = Some(L + retry_delay(n + 1)) and history.failure
\* applied once, and failure(item, origin), when it finds this record, leaves
\* it with delay_until = Some(L + retry_delay(n)) and history.failure
\* applied once.
C31_FailureIdDelaysOneRoundLater ==
    state.tag = "Multi" =>
        \A idx \in 0..(Len(Records(state)) - 1), random \in RandomRange(SchedRetry) :
            LET old == RecordAt(state, idx)
                e == state.sched.items[idx + 1]
                byid == Scheduler_failure_id(state, epoch, SchedRetry,
                                             DenseItemID(epoch, idx), random)
                byval == Scheduler_failure(state, SchedRetry, e.item, e.origin, random)
            IN /\ byid.result = "Ok"
               /\ RecordAt(byid.state, idx) =
                      FailedRecord(old, nretries(old.history) + 1, random)
               /\ Lookup(state.sched, e.item, e.origin) = Some(idx) =>
                      /\ byval.result = "Ok"
                      /\ RecordAt(byval.state, idx) =
                             FailedRecord(old, nretries(old.history), random)

\* C31 witness: failure_id with the current epoch has just been applied in
\* Multi state to a record without earlier retries: the delay is
\* retry_delay(1) = 2, where failure by value would have armed 1.
C31_Witness ==
    /\ ret.op = "failure_id" /\ ret.kind = "Ok" /\ ~ret.stale
    /\ state.tag = "Multi"
    /\ \E i \in DOMAIN Records(state) :
           /\ Records(state)[i].history.retries = 1
           /\ Records(state)[i].delay_until = Some(Records(state)[i].last_use + 2)

(***************************************************************************)
(* Properties of the PER stream codec.                                     *)
(***************************************************************************)
\* C32: the prefix encode_to_stream writes for a payload of n bytes
\* (0 <= n <= 65535) is n mod 256 followed by (n div 256) mod 256.
C32_PrefixIsLittleEndian ==
    (stream # None /\ decoded = None) =>
        LET n == stream[1].payload
        IN /\ stream[1].prefix[1] = n % 256
           /\ stream[1].prefix[2] = (n \div 256) % 256

\* C33: decode_from_stream recomputes from the prefix the length n that
\* encode_to_stream wrote, reads the n payload bytes and reports n + 2 bytes
\* consumed, the number encode_to_stream reported as produced.
C33_PrefixRoundTrips ==
    (encoded # None /\ decoded # None) =>
        /\ decoded[1].kind = "Ok"
        /\ decoded[1].len = encoded[1].produced - 2
        /\ decoded[1].consumed = encoded[1].produced
        /\ stream = Some([prefix |-> <<>>, payload |-> 0])

(***************************************************************************)
(* Properties of the scheduler: errors, frames, delays and epochs.         *)
(***************************************************************************)
\* C34: a refresh that returns OutOfEpochs leaves the state variant, the
\* records, the dense index table and the current epoch as they were.
C34_OutOfEpochsChangesNothing ==
    \A now \in Times, iter \in Inputs :
        \A r \in RefreshOutcomes(state, epoch, epochs, now, iter) :
            r.result.kind = "OutOfEpochs" =>
                /\ r.state.tag = state.tag
                /\ Records(r.state) = Records(state)
                /\ dense_ids(r.state) = dense_ids(state)
                /\ r.epoch = epoch

\* The scheduler state is well formed: in Multi state every index of the id
\* map and of the ordering is the index of a record.
ValidState(st) ==
    st.tag = "Multi" =>
        /\ \A it \in DOMAIN st.sched.ids : st.sched.ids[it] < Len(st.sched.items)
        /\ \A idx \in Range(st.sched.ordering) : idx < Len(st.sched.items)

\* C35: success_id and failure_id with a DenseItemID of the current epoch
\* and any index, indexes beyond the records included, return Ok or a
\* ReportError (never abort) and leave a valid state.
C35_ReportByIdNeverAborts ==
    \A idx \in 0..MaxInput, random \in RandomRange(SchedRetry) :
        LET s == Scheduler_success_id(state, epoch, DenseItemID(epoch, idx))
            f == Scheduler_failure_id(state, epoch, SchedRetry,
                                      DenseItemID(epoch, idx), random)
        IN /\ s.result \in {"Ok", "Uninit", "BadItem"}
           /\ f.result \in {"Ok", "Uninit", "BadItem"}
           /\ ValidState(s.state)
           /\ ValidState(f.state)

(***************************************************************************)
(* The scheduler under retry delays.  The caller reports outcomes and      *)
(* refreshes until it goes quiet, after which it only selects and reports  *)
(* successes; the clock runs far enough for the delays armed to pass.      *)
(***************************************************************************)
MaxDelayTime == 2

MaxDelayEvents == 3

DelayPairs == {<<"A", "o1">>, <<"B", "o1">>}

DelayInputs == {iter \in UNION {[1..n -> DelayPairs] : n \in 1..2} :
                    \A i, j \in DOMAIN iter : iter[i] = iter[j] => i = j}

DelayBounded(st) == Events(Records(st)) <= MaxDelayEvents

\* The record held for the pair p.
RecordOf(st, p) == RecordAt(st, Min(Hits(st, p)))

\* armed after a call of the given kind took the state st to post: a record
\* that was dropped or replaced, or had a success reported, has nothing
\* armed; a record that took a failure has the later of what was armed and
\* what the failure armed.
ArmedAfter(kind, st, post) ==
    [p \in Pairs |->
        IF p \notin HeldPairs(post) \/ p \notin HeldPairs(st) THEN None
        ELSE LET old == RecordOf(st, p)
                 new == RecordOf(post, p)
             IN IF new = old THEN armed[p]
                ELSE CASE kind \in {"refresh", "success", "success_id"} -> None
                       [] kind \in {"failure", "failure_id"} ->
                            IF new.history = History_failure(old.history)
                               /\ new.delay_until # None
                            THEN IF armed[p] # None /\ armed[p][1] > new.delay_until[1]
                                 THEN armed[p]
                                 ELSE new.delay_until
                            ELSE armed[p]
                       [] OTHER -> armed[p]]

DelayRefresh ==
    /\ ~quiet
    /\ \E now \in Times, iter \in DelayInputs :
        \E r \in RefreshOutcomes(state, epoch, epochs, now, iter) :
            /\ state' = r.state
            /\ epoch' = r.epoch
            /\ epochs' = r.epochs
            /\ ret' = [op |-> "refresh", kind |-> r.result.kind]
            /\ armed' = ArmedAfter("refresh", state, r.state)
            /\ UNCHANGED <<clock, published, applied, quiet, schedOthers>>

DelaySelect ==
    \E ordering \in (IF state.tag = "Multi" THEN fixup_ordering(state.sched) ELSE {<<>>}) :
        \E r \in {select(state, epoch, ordering, clock)} :
           /\ state' = r.state
           /\ ret' = [op |-> "select", result |-> r.result]
           /\ UNCHANGED <<epoch, epochs, clock, published, applied, armed, quiet, schedOthers>>

DelaySuccess ==
    \E p \in DelayPairs :
        \E r \in {Scheduler_success(state, p[1], p[2])} :
           /\ DelayBounded(r.state)
           /\ state' = r.state
           /\ ret' = [op |-> "success", kind |-> r.result]
           /\ armed' = ArmedAfter("success", state, r.state)
           /\ UNCHANGED <<epoch, epochs, clock, published, applied, quiet, schedOthers>>

DelayFailure ==
    /\ ~quiet
    /\ \E p \in DelayPairs, random \in RandomRange(SchedRetry) :
        \E r \in {Scheduler_failure(state, SchedRetry, p[1], p[2], random)} :
           /\ DelayBounded(r.state)
           /\ state' = r.state
           /\ ret' = [op |-> "failure", kind |-> r.result]
           /\ armed' = ArmedAfter("failure", state, r.state)
           /\ UNCHANGED <<epoch, epochs, clock, published, applied, quiet, schedOthers>>

DelaySuccessId ==
    \E e \in EpochIds, idx \in 0..1 :
        \E r \in {Scheduler_success_id(state, epoch, DenseItemID(e, idx))} :
           /\ r.result # "Panic"
           /\ DelayBounded(r.state)
           /\ state' = r.state
           /\ ret' = [op |-> "success_id", kind |-> r.result, stale |-> e # epoch]
           /\ armed' = ArmedAfter("success_id", state, r.state)
           /\ UNCHANGED <<epoch, epochs, clock, published, applied, quiet, schedOthers>>

DelayFailureId ==
    /\ ~quiet
    /\ \E e \in EpochIds, idx \in 0..1, random \in RandomRange(SchedRetry) :
        \E r \in {Scheduler_failure_id(state, epoch, SchedRetry, DenseItemID(e, idx), random)} :
           /\ r.result # "Panic"
           /\ DelayBounded(r.state)
           /\ state' = r.state
           /\ ret' = [op |-> "failure_id", kind |-> r.result, stale |-> e # epoch]
           /\ armed' = ArmedAfter("failure_id", state, r.state)
           /\ UNCHANGED <<epoch, epochs, clock, published, applied, quiet, schedOthers>>

\* The caller stops reporting failures and refreshing.
DelayQuiet ==
    /\ ~quiet
    /\ quiet' = TRUE
    /\ ret' = [op |-> "quiet"]
    /\ UNCHANGED <<state, epoch, epochs, clock, published, applied, armed, schedOthers>>

DelayTick ==
    /\ clock < MaxDelayTime
    /\ clock' = clock + 1
    /\ ret' = [op |-> "tick"]
    /\ UNCHANGED <<state, epoch, epochs, published, applied, armed, quiet, schedOthers>>

NextDelay ==
    \/ DelayRefresh \/ DelaySelect \/ DelaySuccess \/ DelayFailure
    \/ DelaySuccessId \/ DelayFailureId \/ DelayQuiet \/ DelayTick

SpecDelay == Init /\ [][NextDelay]_vars

\* The caller keeps selecting, and time keeps passing.
FairDelay == WF_vars(DelaySelect) /\ WF_vars(DelayTick)

SpecDelayFair == SpecDelay /\ FairDelay

(***************************************************************************)
(* Properties of the scheduler under retry delays.                         *)
(***************************************************************************)
\* C36: select never returns Success for a record at or before an instant a
\* failure report armed on it, unless a success was reported on the record
\* or a refresh replaced it since.
C36_NoSuccessBeforeArmedDelay ==
    \A ordering \in (IF state.tag = "Multi" THEN fixup_ordering(state.sched) ELSE {<<>>}) :
        LET r == select(state, epoch, ordering, clock)
        IN r.result.kind = "Success" =>
              LET p == <<r.result.item, r.result.origin>>
              IN armed[p] = None \/ clock > armed[p][1]

\* Every delay armed in st lies before now.
DelaysPassed(st, now) ==
    \A i \in DOMAIN Records(st) :
        Records(st)[i].delay_until # None => Records(st)[i].delay_until[1] < now

\* The number of records of st with a delay armed.
Delayed(st) == Cardinality({i \in DOMAIN Records(st) : Records(st)[i].delay_until # None})

\* Calling select at now again and again returns Success after at most n
\* calls that return Retry, whatever order the sorts produce.
RECURSIVE Recovers(_, _, _)
Recovers(st, now, n) ==
    \A ordering \in (IF st.tag = "Multi" THEN fixup_ordering(st.sched) ELSE {<<>>}) :
        LET r == select(st, epoch, ordering, now)
        IN \/ r.result.kind = "Success"
           \/ /\ n > 0
              /\ r.result.kind = "Retry"
              /\ Recovers(r.state, now, n - 1)

\* The caller has gone quiet on a scheduler that holds records, and the
\* clock has passed every delay armed.
QuietAndPassed == quiet /\ state.tag # "Uninit" /\ DelaysPassed(state, clock)

SelectedSuccess == ret.op = "select" /\ ret.result.kind = "Success"

\* C37: once no failure is reported and no refresh applied any more and
\* the clock has passed every armed delay, repeated select calls eventually
\* return Success, after at most one Retry for each record with a delay
\* armed.
C37_SelectRecovers ==
    /\ [](state.tag # "Uninit" /\ DelaysPassed(state, clock)
            => Recovers(state, clock, Delayed(state)))
    /\ (QuietAndPassed ~> SelectedSuccess)

\* A select of the quiet phase returned Success for a record that had a
\* delay armed which the clock has passed.
C37_Witness ==
    /\ quiet
    /\ SelectedSuccess
    /\ LET p == <<ret.result.item, ret.result.origin>>
       IN armed[p] # None /\ armed[p][1] < clock

(***************************************************************************)
(* Termination of Notify::wait_timeout.                                    *)
(***************************************************************************)
\* Fair scheduling of the Notify threads with time: besides FairNotify, the
\* clock keeps advancing and a timed wait on the condition variable ends
\* when its timeout has elapsed.
FairTimed ==
    /\ FairNotify
    /\ WF_vars(NTick)
    /\ \A t \in Threads : WF_vars(WtTimeout(t))

SpecNotifyTimed == SpecNotify /\ FairTimed

\* The thread t is inside wait_timeout.
InWaitTimeout(t) == pc[t] \in {"wt_check", "wt_parked", "wt_wake"}

\* The thread t waits on the condition variable with a timeout that ends
\* after the last instant of the clock.
BeyondClock(t) == pc[t] = "wt_parked" /\ wakeat[t] > MaxNTime

\* C38: every call of wait_timeout returns, also when notify is never
\* called.  Nothing is asked of a call whose timed wait ends after the last
\* instant of the clock.
C38_WaitTimeoutTerminates ==
    \A t \in Threads : InWaitTimeout(t) ~> (~InWaitTimeout(t) \/ BeyondClock(t))

(***************************************************************************)
(* Properties of the scheduler: what the calls other than refresh leave    *)
(* alone, and the use of the epoch iterator.                               *)
(***************************************************************************)
\* The item-to-index mapping of st.
IdMap(st) ==
    CASE st.tag = "Multi" -> st.sched.ids
      [] st.tag = "Single" -> [it \in {st.single} |-> 0]
      [] OTHER -> <<>>

\* The state variant, the pairs held with their indexes and the
\* item-to-index mapping are the same in st and in post.
SameTable(st, post) ==
    /\ post.tag = st.tag
    /\ dense_ids(post) = dense_ids(st)
    /\ IdMap(post) = IdMap(st)

\* A report by value on the pair p took the Multi state st to post: no
\* record changed but, at most, the one held for p.
OnlyNamedChanged(st, post, p) ==
    \A j \in DOMAIN Records(st) :
        Records(post)[j] # Records(st)[j] => dense_ids(st)[j] = p

\* C39: select, success, failure, success_id and failure_id leave the
\* epoch, the epoch iterator, the state variant, the pairs held and the
\* item-to-index mapping as they are, and success and failure by value in
\* Multi state change no record but that of the named item.
C39_OnlyRefreshChangesTable ==
    /\ [][ret'.op \in {"select", "success", "failure", "success_id", "failure_id"}
            => epoch' = epoch /\ epochs' = epochs /\ SameTable(state, state')]_vars
    /\ [](\A p \in Pairs, random \in RandomRange(SchedRetry) :
            LET s == Scheduler_success(state, p[1], p[2])
                f == Scheduler_failure(state, SchedRetry, p[1], p[2], random)
            IN /\ SameTable(state, s.state)
               /\ SameTable(state, f.state)
               /\ state.tag = "Multi" =>
                     /\ OnlyNamedChanged(state, s.state, p)
                     /\ OnlyNamedChanged(state, f.state, p))

\* A report by value was taken in Multi state: one record has the report
\* in its history, another is as it was created.
C39_Witness ==
    /\ ret.op \in {"success", "failure"}
    /\ ret.kind = "Ok"
    /\ state.tag = "Multi"
    /\ \E i, j \in DOMAIN Records(state) :
          /\ Events(<<Records(state)[i]>>) > 0
          /\ Records(state)[j].history = History_new

\* C40: the epoch iterator is consumed in order, no element skipped or
\* used twice: new fails with OutOfEpochs on an empty iterator and else
\* takes the first element; the current epoch is always the element
\* consumed last; a refresh that returns an EpochChange consumes the next
\* element and carries it, later than every epoch carried before; any other
\* call consumes nothing and leaves the epoch alone.
C40_EpochsConsumedInOrder ==
    /\ Scheduler_new_from(0).kind = "OutOfEpochs"
    /\ [](ret.op = "new" =>
            /\ Scheduler_new_from(NumEpochs).kind = "Ok"
            /\ state = Scheduler_new_from(NumEpochs).state
            /\ epoch = Scheduler_new_from(NumEpochs).epoch
            /\ epochs = Scheduler_new_from(NumEpochs).epochs)
    /\ [](epochs \in 1..NumEpochs /\ epoch = epochs - 1)
    /\ [][IF ret'.op = "refresh" /\ ret'.kind = "Change"
          THEN /\ published' # None
               /\ published'[1].id = epochs
               /\ epoch' = published'[1].id
               /\ epochs' = epochs + 1
               /\ published # None => published'[1].id > published[1].id
          ELSE epoch' = epoch /\ epochs' = epochs /\ published' = published]_vars

\* A refresh returned an EpochChange that carries the last element of the
\* epoch iterator, after an earlier EpochChange.
C40_Witness ==
    /\ ret.op = "refresh"
    /\ ret.kind = "Change"
    /\ published # None
    /\ published[1].id = NumEpochs - 1
    /\ epoch = NumEpochs - 1
    /\ epochs = NumEpochs

====
